---- MODULE Spec2Model ----
(***************************************************************************)
(* Model of the data access layer of aso-mcp: the token-bucket rate        *)
(* limiter with retry/backoff (src/utils/rate-limiter.ts), its error       *)
(* classification, the SQLite cache store (src/cache/sqlite-cache.ts) and  *)
(* the scoring resolver (src/data-sources/aso-scoring.ts) and the App      *)
(* Store Connect client (src/data-sources/app-store-connect.ts).           *)
(*                                                                         *)
(* Time is the millisecond clock Date.now().  Bucket tokens are a float in *)
(* the source; here a bucket stores tokens * windowMs, an integer, so the  *)
(* refill elapsed/windowMs*maxRequests is the integer elapsed*maxRequests  *)
(* and "tokens < 1" reads "tokens < windowMs".                             *)
(***************************************************************************)
EXTENDS Integers, Sequences, FiniteSets, TLC

VARIABLES
    now,        \* Date.now(), in milliseconds
    buckets,    \* rate-limiter.ts: the module's Map source -> bucket
    call,       \* the withRateLimit call each caller is in, and where it stands
    started,    \* per source: withRateLimit calls started so far
    admitted,   \* per source: calls that have taken their token
    created,    \* per source: the time the bucket was created
    fails,      \* operation attempts that have failed so far
    err,        \* the error handed to isRetryable
    verdict,    \* what isRetryable returned for err
    calc,       \* the scoring or sanitizing function called: its argument and result
    cache,      \* sqlite-cache.ts: the rows of table cache, by key
    order,      \* the keys of the rows, in the order they were inserted
    got,        \* the getFromCache that just returned: its key and result
    lastSet,    \* the setCache that just returned: what it found and removed
    lastDel,    \* the deleteCache that just returned: its pattern and effect
    asoAvailable,   \* aso-scoring.ts: the primary provider is taken to work
    asoFailedAt,    \* aso-scoring.ts: Date.now() of its latest failure
    task,       \* the getScores / suggestKeywords call of each slot
    batch,      \* the batchGetScores call under way
    cachedToken,            \* app-store-connect.ts: the token signed last
    cachedTokenExpiry,      \* app-store-connect.ts: its exp, in seconds
    cachedTokenConfigKey,   \* app-store-connect.ts: the key of its config
    lastToken,  \* the generateToken that just returned: what it found and did
    upstream,   \* App Store Connect: what exists there for the app and locale
    upd,        \* the updateMetadata call under way
    meta,       \* the getMetadata / connect_get_metadata call under way
    tool        \* the metadata-update tool handler under way

rlVars == <<buckets, call, started, admitted, created, fails>>
clsVars == <<err, verdict, calc>>
cacheVars == <<cache, order, got, lastSet, lastDel>>
scoreVars == <<asoAvailable, asoFailedAt, task, batch>>
tokenVars == <<cachedToken, cachedTokenExpiry, cachedTokenConfigKey, lastToken>>
connectVars == <<tokenVars, upstream, upd>>
toolVars == <<meta, tool>>

vars == <<now, rlVars, clsVars, cacheVars, scoreVars, connectVars, toolVars>>

(* ------------------------------ bounds -------------------------------- *)

\* withRateLimit calls are started while now <= MaxTime
MaxTime == 1
\* withRateLimit calls started in all
MaxCalls == 3
\* operation attempts that fail in all
MaxFails == 4

\* the concurrent callers of withRateLimit; the operations of the callers in
\* Flaky can fail, those of the others resolve
Callers == {"c1", "c2"}
Flaky == {"c1"}

Min2(a, b) == IF a < b THEN a ELSE b

SetMin(S) == CHOOSE x \in S : \A y \in S : x <= y

RECURSIVE Pow2(_)
Pow2(n) == IF n = 0 THEN 1 ELSE 2 * Pow2(n - 1)

(* --------------------------- rate limiter ----------------------------- *)

MAX_RETRIES == 3
BASE_DELAY_MS == 1000

None == "none"

Sources == {"s1", "s2"}

\* the config a source is always called with; windowMs is a multiple of
\* maxRequests in every entry of RATE_LIMITS, so waitMs is a whole number
RATE_LIMITS ==
    [s \in Sources |->
        IF s = "s1" THEN [maxRequests |-> 2, windowMs |-> 4]
                    ELSE [maxRequests |-> 1, windowMs |-> 2]]

\* one token, and a full bucket, in bucket units
OneToken(cfg) == cfg.windowMs
Capacity(cfg) == cfg.maxRequests * cfg.windowMs

NoBucket == [tokens |-> -1, lastRefill |-> -1]

\* errors an operation attempt can throw
\* an absent status / statusCode is 0, an absent code is None, an absent
\* message the empty sequence
NoError == [status |-> 0, statusCode |-> 0, code |-> None, message |-> <<>>]
ErrUnavailable == [status |-> 0, statusCode |-> 0, code |-> None,
                   message |-> <<"H", "T", "T", "P", " ", "5", "0", "3">>]
ErrNotFound == [status |-> 404, statusCode |-> 0, code |-> None,
                message |-> <<"N", "o", "t", " ", "f", "o", "u", "n", "d">>]
OpErrors == {ErrUnavailable, ErrNotFound}

RETRY_ERRORS == {"ECONNRESET", "ETIMEDOUT", "ENOTFOUND", "EAI_AGAIN"}

\* String.prototype.includes on messages, each a sequence of characters
Includes(msg, pat) ==
    \E i \in 0..(Len(msg) - Len(pat)) :
        \A j \in 1..Len(pat) : msg[i + j] = pat[j]

Chars503 == <<"5", "0", "3">>
Chars429 == <<"4", "2", "9">>
CharsECONNRESET == <<"E", "C", "O", "N", "N", "R", "E", "S", "E", "T">>
CharsETIMEDOUT == <<"E", "T", "I", "M", "E", "D", "O", "U", "T">>

isRetryable(error) ==
    \/ error.status = 429 \/ error.statusCode = 429
    \/ error.code # None /\ error.code \in RETRY_ERRORS
    \/ Includes(error.message, Chars503)
    \/ Includes(error.message, Chars429)
    \/ Includes(error.message, CharsECONNRESET)
    \/ Includes(error.message, CharsETIMEDOUT)

\* the outcome of one attempt of the operation, as recorded in a call's hist
Resolved == [ok |-> TRUE, error |-> NoError]
Rejected(error) == [ok |-> FALSE, error |-> error]

IdleCall ==
    [pc |-> "idle", source |-> None, due |-> 0, attempt |-> 0,
     lastError |-> NoError, idx |-> 0, fresh |-> FALSE, waitMs |-> 0,
     hist |-> <<>>, delays |-> <<>>]

\* lines 41-48: refill proportionally to the elapsed time, capped
Refill(b, cfg, t) ==
    [tokens |-> Min2(Capacity(cfg), b.tokens + (t - b.lastRefill) * cfg.maxRequests),
     lastRefill |-> t]

\* line 52: ((1 - tokens) / maxRequests) * windowMs
WaitMs(b, cfg) == (OneToken(cfg) - b.tokens) \div cfg.maxRequests

\* faulty variant: the token is not taken
TakeNoToken(b, cfg) == b

\* line 57
TakeToken(b, cfg) == [b EXCEPT !.tokens = b.tokens - OneToken(cfg)]

\* faulty variant: the bucket is not set to one token after the wait
AfterWaitKeeps(b, cfg) == b

\* line 54: after the wait the bucket is set to one token
AfterWait(b, cfg) == [b EXCEPT !.tokens = OneToken(cfg)]

TotalStarted == started["s1"] + started["s2"]

\* withRateLimit up to its first await (lines 32-57, or 32-53 when it waits)
Enter(c, s) ==
    LET cfg == RATE_LIMITS[s]
        b0 == IF buckets[s] = NoBucket
              THEN [tokens |-> Capacity(cfg), lastRefill |-> now]
              ELSE buckets[s]
        b1 == Refill(b0, cfg, now)
        fresh == buckets[s] = NoBucket \/ created[s] = now
        base == [IdleCall EXCEPT !.source = s, !.fresh = fresh,
                                 !.idx = IF fresh THEN started[s] + 1 ELSE 0]
    IN  /\ call[c].pc = "idle"
        /\ now <= MaxTime
        /\ TotalStarted < MaxCalls
        /\ started' = [started EXCEPT ![s] = @ + 1]
        /\ created' = IF buckets[s] = NoBucket
                      THEN [created EXCEPT ![s] = now] ELSE created
        /\ IF b1.tokens < OneToken(cfg)
           THEN /\ buckets' = [buckets EXCEPT ![s] = b1]
                /\ call' = [call EXCEPT ![c] =
                       [base EXCEPT !.pc = "waiting",
                                    !.waitMs = WaitMs(b1, cfg),
                                    !.due = now + WaitMs(b1, cfg)]]
                /\ UNCHANGED admitted
           ELSE /\ buckets' = [buckets EXCEPT ![s] = TakeToken(b1, cfg)]
                /\ call' = [call EXCEPT ![c] =
                       [base EXCEPT !.pc = "running"]]
                /\ admitted' = [admitted EXCEPT ![s] = @ + 1]
        /\ UNCHANGED <<now, fails, clsVars, cacheVars, scoreVars, connectVars, toolVars>>

\* the wait's timer fires (lines 53-57): tokens := 1, then one is taken
Wake(c) ==
    LET s == call[c].source
        cfg == RATE_LIMITS[s]
    IN  /\ call[c].pc = "waiting"
        /\ call[c].due <= now
        /\ buckets' = [buckets EXCEPT ![s] = TakeToken(AfterWait(buckets[s], cfg), cfg)]
        /\ call' = [call EXCEPT ![c].pc = "running"]
        /\ admitted' = [admitted EXCEPT ![s] = @ + 1]
        /\ UNCHANGED <<now, started, created, fails, clsVars, cacheVars, scoreVars, connectVars, toolVars>>

\* line 63: the attempt resolves
OpSucceed(c) ==
    /\ call[c].pc = "running"
    /\ call' = [call EXCEPT ![c].pc = "returned",
                            ![c].hist = Append(@, Resolved)]
    /\ UNCHANGED <<now, buckets, started, admitted, created, fails, clsVars, cacheVars, scoreVars, connectVars, toolVars>>

\* faulty variant: the backoff grows linearly
BackoffLinear(attempt) == BASE_DELAY_MS * (attempt + 1)

\* line 67
BackoffDelay(attempt) == BASE_DELAY_MS * Pow2(attempt)

\* faulty variant: one retry fewer
ShouldRetryOneFewer(attempt, error) ==
    attempt < MAX_RETRIES - 1 /\ isRetryable(error)

\* faulty variant: every error is retried
ShouldRetryAnyError(attempt, error) == attempt < MAX_RETRIES

\* line 66
ShouldRetry(attempt, error) == attempt < MAX_RETRIES /\ isRetryable(error)

\* faulty variant: an error that is not retried is swallowed, the call never settles
OpFailDrops(c, error) ==
    /\ call[c].pc = "running"
    /\ c \in Flaky
    /\ fails < MaxFails
    /\ fails' = fails + 1
    /\ call' = [call EXCEPT
           ![c].pc = IF call[c].attempt < MAX_RETRIES /\ isRetryable(error) THEN "backoff" ELSE "dropped",
           ![c].lastError = error,
           ![c].hist = Append(@, Rejected(error)),
           ![c].due = now + BASE_DELAY_MS]
    /\ UNCHANGED <<now, buckets, started, admitted, created, clsVars, cacheVars, scoreVars, connectVars, toolVars>>

\* lines 64-72: the attempt rejects with error
OpFail(c, error) ==
    /\ call[c].pc = "running"
    /\ c \in Flaky
    /\ fails < MaxFails
    /\ fails' = fails + 1
    /\ IF ShouldRetry(call[c].attempt, error)
       THEN call' = [call EXCEPT
                ![c].pc = "backoff",
                ![c].lastError = error,
                ![c].hist = Append(@, Rejected(error)),
                ![c].delays = Append(@, BackoffDelay(call[c].attempt)),
                ![c].due = now + BackoffDelay(call[c].attempt)]
       ELSE call' = [call EXCEPT
                ![c].pc = "thrown",
                ![c].lastError = error,
                ![c].hist = Append(@, Rejected(error))]
    /\ UNCHANGED <<now, buckets, started, admitted, created, clsVars, cacheVars, scoreVars, connectVars, toolVars>>

\* faulty variant: the retry goes through the token check again
RetryTakesToken(c) ==
    /\ call[c].pc = "backoff"
    /\ call[c].due <= now
    /\ call' = [call EXCEPT ![c].pc = "running", ![c].attempt = @ + 1]
    /\ buckets' = [buckets EXCEPT ![call[c].source] =
                       TakeToken(Refill(@, RATE_LIMITS[call[c].source], now),
                                 RATE_LIMITS[call[c].source])]
    /\ admitted' = [admitted EXCEPT ![call[c].source] = @ + 1]
    /\ UNCHANGED <<now, started, created, fails, clsVars, cacheVars, scoreVars, connectVars, toolVars>>

\* lines 68-69 and 61: the backoff timer fires, the loop goes round
Retry(c) ==
    /\ call[c].pc = "backoff"
    /\ call[c].due <= now
    /\ call' = [call EXCEPT ![c].pc = "running", ![c].attempt = @ + 1]
    /\ UNCHANGED <<now, buckets, started, admitted, created, fails, clsVars, cacheVars, scoreVars, connectVars, toolVars>>

\* the caller has its result or error; the caller may call again
Finish(c) ==
    /\ call[c].pc \in {"returned", "thrown"}
    /\ call' = [call EXCEPT ![c] = IdleCall]
    /\ UNCHANGED <<now, buckets, started, admitted, created, fails, clsVars, cacheVars, scoreVars, connectVars, toolVars>>

PendingDue ==
    {call[c].due : c \in {d \in Callers :
        call[d].pc \in {"waiting", "backoff"} /\ call[d].due > now}}

\* the clock: by a millisecond while calls can still start, else to the next timer
Tick ==
    /\ \E t \in (IF now < MaxTime THEN {now + 1} ELSE {}) \cup
                (IF PendingDue # {} THEN {SetMin(PendingDue)} ELSE {}) :
          now' = t
    /\ UNCHANGED <<rlVars, clsVars, cacheVars, scoreVars, connectVars, toolVars>>

RLIdle ==
    /\ buckets = [s \in Sources |-> NoBucket]
    /\ call = [c \in Callers |-> IdleCall]
    /\ started = [s \in Sources |-> 0]
    /\ admitted = [s \in Sources |-> 0]
    /\ created = [s \in Sources |-> 0]
    /\ fails = 0

RLNext ==
    \/ \E c \in Callers, s \in Sources : Enter(c, s)
    \/ \E c \in Callers : Wake(c)
    \/ \E c \in Callers : OpSucceed(c)
    \/ \E c \in Callers, e \in OpErrors : OpFail(c, e)
    \/ \E c \in Callers : Retry(c)
    \/ \E c \in Callers : Finish(c)
    \/ Tick

(* ----------------------- error classification ------------------------- *)

Statuses == {0, 404, 429, 503}
Codes == {None, "ECONNRESET", "ETIMEDOUT", "ENOTFOUND", "EAI_AGAIN", "EACCES"}
CharsENOTFOUND == <<"E", "N", "O", "T", "F", "O", "U", "N", "D">>
CharsEAI_AGAIN == <<"E", "A", "I", "_", "A", "G", "A", "I", "N">>
Messages ==
    {<<>>,
     <<"H", "T", "T", "P", " ", "5", "0", "3">>,
     <<"H", "T", "T", "P", " ", "4", "2", "9">>,
     <<"r", "e", "a", "d", " ">> \o CharsECONNRESET,
     <<"c", "o", "n", "n", "e", "c", "t", " ">> \o CharsETIMEDOUT,
     <<"g", "e", "t", "a", "d", "d", "r", "i", "n", "f", "o", " ">> \o CharsENOTFOUND,
     <<"g", "e", "t", "a", "d", "d", "r", "i", "n", "f", "o", " ">> \o CharsEAI_AGAIN,
     <<"U", "n", "a", "v", "a", "i", "l">>,
     <<"N", "o", "t", " ", "f", "o", "u", "n", "d">>}

Errors == [status : Statuses, statusCode : Statuses, code : Codes, message : Messages]

\* no scoring or sanitizing function called yet
NoCalc == [fn |-> None, in |-> <<>>, done |-> FALSE, out |-> 0]

ClsIdle == err = NoError /\ verdict = "none" /\ calc = NoCalc

\* an error is thrown somewhere
Throw ==
    /\ \E e \in Errors : err' = e
    /\ verdict' = "none"
    /\ UNCHANGED <<now, rlVars, calc, cacheVars, scoreVars, connectVars, toolVars>>

\* lines 17-25
Classify ==
    /\ verdict = "none"
    /\ verdict' = IF isRetryable(err) THEN "retryable" ELSE "fatal"
    /\ UNCHANGED <<now, rlVars, err, calc, cacheVars, scoreVars, connectVars, toolVars>>

ClassifyNext == Throw \/ Classify

(* ------------------------------ cache --------------------------------- *)

\* the source's 5000, scaled to the model
MAX_CACHE_ENTRIES == 2
\* the times the cache's clock passes through after 0: half seconds
ClockTicks == {500, 1000, 1500, 2000}

Keys == {<<"f", ":", "a">>, <<"f", ":", "b">>, <<"F", ":", "a">>, <<"g", ":", "a">>}
\* the patterns deleteCache is called with: a key family, and one key
Patterns == {<<"f", ":", "%">>, <<"g", ":", "a">>}
\* the (value, ttlSeconds) pairs setCache is called with
SetInputs == {<<"v1", 1>>, <<"v2", 2>>}
Absent == "null"
NoKey == <<>>

\* strftime('%s', 'now') and Math.floor(Date.now() / 1000)
NowSec == now \div 1000

\* a row: value, expires_at and created_at are its columns; setAt (the
\* Date.now() of the setCache that wrote it) and ttl record that call
NoEntry == [value |-> Absent, expires_at |-> -1, created_at |-> -1,
            setAt |-> -1, ttl |-> 0]

Rows(t) == {k \in Keys : t[k] # NoEntry}

Count(t) == Cardinality(Rows(t))

Remove(t, R) == [k \in Keys |-> IF k \in R THEN NoEntry ELSE t[k]]

\* faulty variant: a row is still served in the second it expires
getFromCacheInclusive(key) ==
    IF cache[key] # NoEntry /\ cache[key].expires_at >= NowSec
    THEN cache[key].value
    ELSE Absent

\* lines 38-44
getFromCache(key) ==
    IF cache[key] # NoEntry /\ cache[key].expires_at > NowSec
    THEN cache[key].value
    ELSE Absent

\* lines 31 and 99: DELETE FROM cache WHERE expires_at < strftime('%s','now')
PurgeExpired(t) ==
    Remove(t, {k \in Rows(t) : t[k].expires_at < NowSec})

\* faulty variant: ORDER BY created_at DESC
NewestFirst(t, n) ==
    {R \in SUBSET Rows(t) :
        /\ Cardinality(R) = n
        /\ \A r \in R, o \in Rows(t) \ R : t[r].created_at >= t[o].created_at}

\* lines 108-112: the keys SELECT ... ORDER BY created_at ASC LIMIT n can
\* return; rows of equal created_at come in an order SQL leaves open
OldestFirst(t, n) ==
    {R \in SUBSET Rows(t) :
        /\ Cardinality(R) = n
        /\ \A r \in R, o \in Rows(t) \ R : t[r].created_at <= t[o].created_at}

\* faulty variant: only the expired rows go
enforceSizeLimitPurgeOnly(t) == {PurgeExpired(t)}

\* lines 97-114: the tables enforceSizeLimit can leave
enforceSizeLimit(t) ==
    LET p == PurgeExpired(t)
    IN  IF Count(p) > MAX_CACHE_ENTRIES
        THEN {Remove(p, R) : R \in OldestFirst(p, Count(p) - MAX_CACHE_ENTRIES)}
        ELSE {p}

\* faulty variant: an update in place, the row keeps its created_at
InsertOrUpdate(t, key, value, ttlSeconds) ==
    [t EXCEPT ![key] = [value |-> value,
                        expires_at |-> NowSec + ttlSeconds,
                        created_at |-> IF t[key] = NoEntry THEN NowSec
                                       ELSE t[key].created_at,
                        setAt |-> now,
                        ttl |-> ttlSeconds]]

\* lines 52-55: INSERT OR REPLACE, created_at by its DEFAULT
InsertOrReplace(t, key, value, ttlSeconds) ==
    [t EXCEPT ![key] = [value |-> value,
                        expires_at |-> NowSec + ttlSeconds,
                        created_at |-> NowSec,
                        setAt |-> now,
                        ttl |-> ttlSeconds]]

SelectSeq2(q, S) == SelectSeq(q, LAMBDA k : k \in S)

\* OldestFirst(t, 1), as a set of keys: the rows of least created_at
LeastCreated(t) ==
    {r \in Rows(t) : \A o \in Rows(t) : t[r].created_at <= t[o].created_at}

NoSet == [key |-> NoKey, value |-> Absent, ttl |-> 0, before |-> NoEntry,
          full |-> FALSE, removed |-> {}, earliest |-> NoKey, minKeys |-> {}]

NoGet == [key |-> NoKey, result |-> Absent]

NoDel == [pattern |-> NoKey, removed |-> {}, touched |-> {}]

\* SQLite's LIKE folds the case of ASCII letters
Fold(ch) ==
    CASE ch = "F" -> "f"
      [] ch = "G" -> "g"
      [] ch = "A" -> "a"
      [] ch = "B" -> "b"
      [] OTHER -> ch

\* key LIKE pattern: % stands for any run of characters, _ for any one
\* character, and letters match without regard to case
RECURSIVE Like(_, _)
Like(key, pattern) ==
    IF pattern = <<>> THEN key = <<>>
    ELSE IF Head(pattern) = "%"
      THEN Like(key, Tail(pattern)) \/ (key # <<>> /\ Like(Tail(key), pattern))
    ELSE IF key = <<>> THEN FALSE
    ELSE /\ Head(pattern) = "_" \/ Fold(Head(key)) = Fold(Head(pattern))
         /\ Like(Tail(key), Tail(pattern))

\* lines 47-64
setCache(key, value, ttlSeconds) ==
    LET ins == InsertOrReplace(cache, key, value, ttlSeconds)
        ord == Append(SelectSeq2(order, Keys \ {key}), key)
    IN  \E t \in (IF Count(ins) > MAX_CACHE_ENTRIES
                  THEN enforceSizeLimit(ins) ELSE {ins}) :
          /\ cache' = t
          /\ order' = SelectSeq2(ord, Rows(t))
          /\ lastSet' =
                [key |-> key,
                 value |-> value,
                 ttl |-> ttlSeconds,
                 before |-> cache[key],
                 full |-> /\ cache[key] = NoEntry
                          /\ Count(cache) = MAX_CACHE_ENTRIES
                          /\ \A r \in Rows(cache) : cache[r].expires_at > NowSec,
                 removed |-> Rows(ins) \ Rows(t),
                 earliest |-> IF order = <<>> THEN NoKey ELSE Head(order),
                 minKeys |-> LeastCreated(ins)]
          /\ got' = NoGet
          /\ lastDel' = NoDel
          /\ UNCHANGED <<now, rlVars, clsVars, scoreVars, connectVars, toolVars>>

\* faulty variant: a hit stamps the row read with the clock's second
GetTouching(key) ==
    /\ got' = [key |-> key, result |-> getFromCache(key)]
    /\ lastSet' = NoSet
    /\ lastDel' = NoDel
    /\ cache' = IF getFromCache(key) # Absent
                THEN [cache EXCEPT ![key].created_at = NowSec]
                ELSE cache
    /\ UNCHANGED <<now, rlVars, clsVars, scoreVars, connectVars, toolVars, order>>

\* a caller reads a key (lines 37-45)
Get(key) ==
    /\ got' = [key |-> key, result |-> getFromCache(key)]
    /\ lastSet' = NoSet
    /\ lastDel' = NoDel
    /\ UNCHANGED <<now, rlVars, clsVars, scoreVars, connectVars, toolVars, cache, order>>

\* lines 66-68: DELETE FROM cache WHERE key LIKE ?
deleteCache(keyPattern) ==
    LET t == Remove(cache, {k \in Rows(cache) : Like(k, keyPattern)})
    IN  /\ cache' = t
        /\ order' = SelectSeq2(order, Rows(t))
        /\ lastDel' = [pattern |-> keyPattern,
                       removed |-> Rows(cache) \ Rows(t),
                       touched |-> {k \in Rows(t) : t[k] # cache[k]}]
        /\ lastSet' = NoSet
        /\ got' = NoGet
        /\ UNCHANGED <<now, rlVars, clsVars, scoreVars, connectVars, toolVars>>

\* lines 70-72
clearCache ==
    /\ cache' = [k \in Keys |-> NoEntry]
    /\ order' = <<>>
    /\ lastSet' = NoSet
    /\ got' = NoGet
    /\ lastDel' = NoDel
    /\ UNCHANGED <<now, rlVars, clsVars, scoreVars, connectVars, toolVars>>

\* lines 10-35, on a restart of the process: the rows are on disk
initCache ==
    /\ \E t \in enforceSizeLimit(PurgeExpired(cache)) :
          /\ cache' = t
          /\ order' = SelectSeq2(order, Rows(t))
    /\ lastSet' = NoSet
    /\ got' = NoGet
    /\ lastDel' = NoDel
    /\ UNCHANGED <<now, rlVars, clsVars, scoreVars, connectVars, toolVars>>

\* the clock, in half seconds
CacheTick ==
    /\ now + 500 \in ClockTicks
    /\ now' = now + 500
    /\ lastSet' = NoSet
    /\ got' = NoGet
    /\ lastDel' = NoDel
    /\ UNCHANGED <<rlVars, clsVars, scoreVars, connectVars, toolVars, cache, order>>

CacheIdle ==
    /\ cache = [k \in Keys |-> NoEntry]
    /\ order = <<>>
    /\ got = NoGet
    /\ lastSet = NoSet
    /\ lastDel = NoDel

CacheNext ==
    \/ \E k \in Keys, in \in SetInputs : setCache(k, in[1], in[2])
    \/ \E k \in Keys : Get(k)
    \/ \E p \in Patterns : deleteCache(p)
    \/ clearCache
    \/ initCache
    \/ CacheTick

(* ------------------------------ scoring ------------------------------- *)

ASO_RETRY_INTERVAL_MS == 600000
\* the times the resolver's clock passes through after 0: steps of 5 minutes
ScoreTicks == {300000, 600000, 900000}
\* the slots of concurrent getScores / suggestKeywords calls
Tasks == {1, 2}
\* a field the provider's result does not have
Undefined == -1
\* what client.scores resolves with
ProviderScores == {[traffic |-> 7, difficulty |-> 4],
                   [traffic |-> 3, difficulty |-> Undefined]}
\* what fallbackScores resolves with: {1, 1} when the search finds nothing,
\* else the estimate computed from the apps found
LocalScores == {[traffic |-> 1, difficulty |-> 1],
                [traffic |-> 5, difficulty |-> 6]}
\* the keyword lists and group sizes batchGetScores is called with (the
\* default group size 5, scaled to the two slots)
KeywordLists == {<<>>, <<"a">>, <<"a", "b">>, <<"a", "b", "a">>}
Concurrencies == {1, 2}

NoScores == [traffic |-> Undefined, difficulty |-> Undefined]

\* a call: where it stands, the attempt of withRateLimit's loop it is in,
\* whether its fallback runs inside withRateLimit's operation; reprobe, cold,
\* primary, fallback and raw record what the call found and did
IdleTask ==
    [pc |-> "idle", op |-> None, attempt |-> 0, inLimiter |-> FALSE,
     reprobe |-> FALSE, cold |-> FALSE, primary |-> None, fallback |-> None,
     raw |-> NoScores, by |-> None, scores |-> NoScores]

NoBatch ==
    [pc |-> "idle", keywords |-> <<>>, concurrency |-> 1, i |-> 0,
     results |-> <<>>, threw |-> <<>>]

\* result.traffic ?? 0
Coalesce(x) == IF x = Undefined THEN 0 ELSE x

\* faulty variant: the provider is tried again only after the interval
InCooldownInclusive == ~asoAvailable /\ now - asoFailedAt <= ASO_RETRY_INTERVAL_MS

\* lines 70-71 and 102-103: the provider has failed and the interval runs
InCooldown == ~asoAvailable /\ now - asoFailedAt < ASO_RETRY_INTERVAL_MS

\* lines 70-78 and 102-109: a call that skips the provider computes its
\* fallback, any other goes through withRateLimit
Entered(op) ==
    [IdleTask EXCEPT !.pc = IF InCooldown THEN "fallback" ELSE "limit",
                     !.op = op,
                     !.inLimiter = ~InCooldown,
                     !.reprobe = ~asoAvailable /\ ~InCooldown]

\* faulty variant: every request resets the health flag
ReprobedEveryRequest == TRUE

\* lines 70-76 and 102-107: asoAvailable after the check
Reprobed == IF ~asoAvailable /\ ~InCooldown THEN TRUE ELSE asoAvailable

Request(t, op) ==
    /\ task[t].pc = "idle"
    /\ task' = [task EXCEPT ![t] = Entered(op)]
    /\ asoAvailable' = Reprobed
    /\ UNCHANGED <<now, rlVars, clsVars, cacheVars, connectVars, toolVars, asoFailedAt, batch>>

\* lines 65-78
getScores(t) == Request(t, "scores")

\* lines 95-109
suggestKeywords(t) == Request(t, "suggest")

\* the provider is invoked (lines 80-81, 111-119), once withRateLimit has
\* let the call through (rate-limiter.ts lines 41-62; the wait for a token
\* is a delay of any length here)
StartOperation(t) ==
    /\ task[t].pc = "limit"
    /\ task' = [task EXCEPT ![t].pc = "primary", ![t].cold = InCooldown]
    /\ UNCHANGED <<now, rlVars, clsVars, cacheVars, connectVars, toolVars, asoAvailable, asoFailedAt, batch>>

\* lines 81-85 and 119-123
PrimaryResolves(t) ==
    /\ task[t].pc = "primary"
    /\ \E r \in (IF task[t].op = "scores" THEN ProviderScores ELSE {NoScores}) :
          task' = [task EXCEPT
                     ![t].pc = "returned",
                     ![t].primary = "ok",
                     ![t].raw = r,
                     ![t].by = "primary",
                     ![t].scores = IF task[t].op = "scores"
                                   THEN [traffic |-> Coalesce(r.traffic),
                                         difficulty |-> Coalesce(r.difficulty)]
                                   ELSE NoScores]
    /\ UNCHANGED <<now, rlVars, clsVars, cacheVars, connectVars, toolVars, asoAvailable, asoFailedAt, batch>>

\* faulty variant: no catch, the provider's error leaves the call
PrimaryRethrows(t) ==
    /\ task[t].pc = "primary"
    /\ task' = [task EXCEPT ![t].pc = "thrown", ![t].primary = "threw"]
    /\ UNCHANGED <<now, rlVars, clsVars, cacheVars, connectVars, toolVars, asoAvailable, asoFailedAt, batch>>

\* lines 86-90 and 124-127
PrimaryThrows(t) ==
    /\ task[t].pc = "primary"
    /\ asoAvailable' = FALSE
    /\ asoFailedAt' = now
    /\ task' = [task EXCEPT ![t].pc = "fallback", ![t].primary = "threw"]
    /\ UNCHANGED <<now, rlVars, clsVars, cacheVars, connectVars, toolVars, batch>>

\* fallbackScores (lines 31-63) or fallbackSuggest (lines 165-195) resolves
FallbackResolves(t) ==
    /\ task[t].pc = "fallback"
    /\ \E r \in (IF task[t].op = "scores" THEN LocalScores ELSE {NoScores}) :
          task' = [task EXCEPT ![t].pc = "returned",
                               ![t].fallback = "ok",
                               ![t].by = "local",
                               ![t].scores = r]
    /\ UNCHANGED <<now, rlVars, clsVars, cacheVars, connectVars, toolVars, asoAvailable, asoFailedAt, batch>>

\* searchApps (line 35) rejects and so does fallbackScores; fallbackSuggest
\* catches what it meets (lines 171-194).  Inside withRateLimit's operation
\* the error reaches the retry loop (rate-limiter.ts lines 64-72)
FallbackThrows(t, error) ==
    /\ task[t].pc = "fallback"
    /\ task[t].op = "scores"
    /\ task' = [task EXCEPT
                  ![t].fallback = "threw",
                  ![t].pc = IF task[t].inLimiter /\ ShouldRetry(task[t].attempt, error)
                            THEN "backoff" ELSE "thrown",
                  ![t].attempt = IF task[t].inLimiter /\ ShouldRetry(task[t].attempt, error)
                                 THEN @ + 1 ELSE @]
    /\ UNCHANGED <<now, rlVars, clsVars, cacheVars, connectVars, toolVars, asoAvailable, asoFailedAt, batch>>

\* rate-limiter.ts lines 60-62: the next attempt runs the operation again,
\* from its first line (line 79)
RetryOperation(t) ==
    /\ task[t].pc = "backoff"
    /\ task' = [task EXCEPT ![t].pc = "primary", ![t].cold = InCooldown,
                           ![t].primary = None, ![t].fallback = None]
    /\ UNCHANGED <<now, rlVars, clsVars, cacheVars, connectVars, toolVars, asoAvailable, asoFailedAt, batch>>

\* the caller has the result or the error
Settled(t) == task[t].pc \in {"returned", "thrown"}

TaskDone(t) ==
    /\ Settled(t)
    /\ task' = [task EXCEPT ![t] = IdleTask]
    /\ UNCHANGED <<now, rlVars, clsVars, cacheVars, connectVars, toolVars, asoAvailable, asoFailedAt, batch>>

ScoreTick ==
    /\ now + 300000 \in ScoreTicks
    /\ now' = now + 300000
    /\ UNCHANGED <<rlVars, clsVars, cacheVars, scoreVars, connectVars, toolVars>>

\* faulty variant: the last element of the range is left out
SliceShort(s, from, to) == SubSeq(s, from + 1, Min2(to, Len(s)) - 1)

\* Array.prototype.slice(from, to) on a sequence, indices from 0
Slice(s, from, to) == SubSeq(s, from + 1, Min2(to, Len(s)))

\* faulty variant: the group ignores the concurrency argument
GroupOfTwo == Slice(batch.keywords, batch.i, batch.i + 2)

\* line 144: the group of the loop's round
Group == Slice(batch.keywords, batch.i, batch.i + batch.concurrency)

\* lines 136-141
batchGetScores(keywords, concurrency) ==
    /\ batch.pc = "idle"
    /\ \A t \in Tasks : task[t].pc = "idle"
    /\ batch' = [NoBatch EXCEPT !.pc = "loop", !.keywords = keywords,
                                !.concurrency = concurrency]
    /\ UNCHANGED <<now, rlVars, clsVars, cacheVars, connectVars, toolVars, asoAvailable, asoFailedAt, task>>

\* lines 143-148: the round maps its group to getScores calls, which run up
\* to their first await one after the other
BatchLaunch ==
    /\ batch.pc = "loop"
    /\ batch.i < Len(batch.keywords)
    /\ task' = [t \in Tasks |-> IF t <= Len(Group) THEN Entered("scores") ELSE task[t]]
    /\ asoAvailable' = IF Len(Group) > 0 THEN Reprobed ELSE asoAvailable
    /\ batch' = [batch EXCEPT !.pc = "await"]
    /\ UNCHANGED <<now, rlVars, clsVars, cacheVars, connectVars, toolVars, asoFailedAt>>

\* lines 145-155: Promise.all resolves when every call of the group has
\* settled, with the results in the group's order
BatchCollect ==
    /\ batch.pc = "await"
    /\ \A t \in 1..Len(Group) : Settled(t)
    /\ batch' = [batch EXCEPT
                   !.pc = "loop",
                   !.i = @ + batch.concurrency,
                   !.results = @ \o
                       [j \in 1..Len(Group) |->
                           IF task[j].pc = "returned"
                           THEN [keyword |-> Group[j],
                                 traffic |-> task[j].scores.traffic,
                                 difficulty |-> task[j].scores.difficulty]
                           ELSE [keyword |-> Group[j], traffic |-> 0, difficulty |-> 0]],
                   !.threw = @ \o [j \in 1..Len(Group) |-> task[j].pc = "thrown"]]
    /\ task' = [t \in Tasks |-> IF t <= Len(Group) THEN IdleTask ELSE task[t]]
    /\ UNCHANGED <<now, rlVars, clsVars, cacheVars, connectVars, toolVars, asoAvailable, asoFailedAt>>

\* line 158
BatchReturn ==
    /\ batch.pc = "loop"
    /\ batch.i >= Len(batch.keywords)
    /\ batch' = [batch EXCEPT !.pc = "returned"]
    /\ UNCHANGED <<now, rlVars, clsVars, cacheVars, connectVars, toolVars, asoAvailable, asoFailedAt, task>>

\* the caller has the results
BatchDone ==
    /\ batch.pc = "returned"
    /\ batch' = NoBatch
    /\ UNCHANGED <<now, rlVars, clsVars, cacheVars, connectVars, toolVars, asoAvailable, asoFailedAt, task>>

ScoreIdle ==
    /\ asoAvailable = TRUE
    /\ asoFailedAt = 0
    /\ task = [t \in Tasks |-> IdleTask]
    /\ batch = NoBatch

\* what a call does once made
TaskStep(t) ==
    \/ StartOperation(t)
    \/ PrimaryResolves(t)
    \/ PrimaryThrows(t)
    \/ FallbackResolves(t)
    \/ \E e \in OpErrors : FallbackThrows(t, e)
    \/ RetryOperation(t)

ScoreNext ==
    \/ \E t \in Tasks : getScores(t) \/ suggestKeywords(t) \/ TaskStep(t) \/ TaskDone(t)
    \/ ScoreTick

BatchNext ==
    \/ \E l \in KeywordLists, c \in Concurrencies : batchGetScores(l, c)
    \/ BatchLaunch
    \/ BatchCollect
    \/ BatchReturn
    \/ BatchDone
    \/ \E t \in Tasks : TaskStep(t)
    \/ ScoreTick

(* ------------------------- App Store Connect -------------------------- *)

\* line 77: 20 * 60 seconds
TOKEN_LIFETIME_S == 1200
\* line 67: the safety margin, in seconds
TOKEN_MARGIN_S == 120
\* the times the client's clock passes through after 0, in milliseconds
TokenTicks == {540000, 1079999, 1080000, 1620000}

Configs ==
    {[issuerId |-> <<"i1">>, apiKeyId |-> <<"k1">>, privateKeyPath |-> "p1"],
     [issuerId |-> <<"i2">>, apiKeyId |-> <<"k1">>, privateKeyPath |-> "p1"],
     [issuerId |-> <<"i1">>, apiKeyId |-> <<"k1">>, privateKeyPath |-> "p2"]}

NoConfig == [issuerId |-> <<>>, apiKeyId |-> <<>>, privateKeyPath |-> None]

\* a token is its payload, its key id and the key file it was signed with
NoToken == [iss |-> <<>>, kid |-> <<>>, iat |-> 0, exp |-> 0, key |-> None]

NoTokenCall ==
    [config |-> NoConfig, signed |-> FALSE, token |-> NoToken,
     had |-> NoToken, hadExpiry |-> 0, hadKey |-> <<>>]

\* line 60: `${config.issuerId}:${config.apiKeyId}`
ConfigKey(config) == config.issuerId \o <<":">> \o config.apiKeyId

\* faulty variant: the token is used up to its expiry
ReusableToExpiry(config) ==
    /\ cachedToken # NoToken
    /\ cachedTokenConfigKey = ConfigKey(config)
    /\ NowSec < cachedTokenExpiry

\* lines 64-68
Reusable(config) ==
    /\ cachedToken # NoToken
    /\ cachedTokenConfigKey = ConfigKey(config)
    /\ NowSec < cachedTokenExpiry - TOKEN_MARGIN_S

\* lines 72-88: the key file is read and the token signed
Sign(config) ==
    [iss |-> config.issuerId, kid |-> config.apiKeyId, iat |-> NowSec,
     exp |-> NowSec + TOKEN_LIFETIME_S, key |-> config.privateKeyPath]

\* lines 59-93, as a step on the token's variables
generateToken(config) ==
    /\ cachedToken' = IF Reusable(config) THEN cachedToken ELSE Sign(config)
    /\ cachedTokenExpiry' = IF Reusable(config) THEN cachedTokenExpiry
                            ELSE Sign(config).exp
    /\ cachedTokenConfigKey' = IF Reusable(config) THEN cachedTokenConfigKey
                               ELSE ConfigKey(config)
    /\ lastToken' = [config |-> config,
                     signed |-> ~Reusable(config),
                     token |-> cachedToken',
                     had |-> cachedToken,
                     hadExpiry |-> cachedTokenExpiry,
                     hadKey |-> cachedTokenConfigKey]

\* lines 103-104: a request asks for its token
GetToken(config) ==
    /\ generateToken(config)
    /\ UNCHANGED <<now, rlVars, clsVars, cacheVars, scoreVars, toolVars, upstream, upd>>

TokenTick ==
    /\ \E t \in TokenTicks : t > now /\ now' = t
    /\ lastToken' = NoTokenCall
    /\ UNCHANGED <<rlVars, clsVars, cacheVars, scoreVars, toolVars, cachedToken,
                   cachedTokenExpiry, cachedTokenConfigKey, upstream, upd>>

\* the two places of a locale's metadata, and the update fields of each
Levels == {"app", "version"}

FieldsOf == [l \in Levels |-> IF l = "app" THEN {"name", "subtitle"}
                                           ELSE {"keywords"}]

\* upstream, for the app: container[l] says there is an appInfo (an
\* editable version), loc[l] that it has a localization for the locale
Upstreams ==
    {u \in [container : [Levels -> BOOLEAN], loc : [Levels -> BOOLEAN]] :
        \A l \in Levels : u.loc[l] => u.container[l]}

\* the config updateMetadata is called with
TheConfig == [issuerId |-> <<"i1">>, apiKeyId |-> <<"k1">>, privateKeyPath |-> "p1"]

\* before[l]: getMetadata returned a localization id for level l; existed
\* records upstream.loc at the call; log lists the requests made after the
\* first getMetadata, each with whether the level's localization existed
IdleUpdate ==
    [pc |-> "idle", updates |-> {}, level |-> "app",
     before |-> [l \in Levels |-> FALSE], existed |-> [l \in Levels |-> FALSE],
     log |-> <<>>, error |-> None]

\* lines 416-428: the call, up to its first request
updateMetadata(updates) ==
    /\ upd.pc = "idle"
    /\ upd' = [IdleUpdate EXCEPT !.pc = "before", !.updates = updates,
                                 !.existed = upstream.loc]
    /\ UNCHANGED <<now, rlVars, clsVars, cacheVars, scoreVars, toolVars, tokenVars, upstream>>

\* lines 198-293: getMetadata reads each level's localization; a request
\* that fails leaves the level's id null (lines 233-235, 270-272)
ReadBefore ==
    /\ upd.pc = "before"
    /\ \E found \in [Levels -> BOOLEAN] :
          /\ \A l \in Levels : found[l] => upstream.loc[l]
          /\ upd' = [upd EXCEPT !.pc = "decide", !.before = found]
    /\ generateToken(TheConfig)
    /\ UNCHANGED <<now, rlVars, clsVars, cacheVars, scoreVars, toolVars, upstream>>

\* the update's fields for the level under way (lines 431-435, 469-479)
LevelFields == upd.updates \cap FieldsOf[upd.level]

\* lines 466-468 and 510-513: on to the version level, then to the re-read
Onward(u) ==
    IF u.level = "app" THEN [u EXCEPT !.level = "version", !.pc = "decide"]
    ELSE [u EXCEPT !.pc = "after"]

Logged(u, method) ==
    [u EXCEPT !.log = Append(@, [method |-> method, level |-> u.level,
                                 existed |-> upstream.loc[u.level]])]

Failed(u, error) == [u EXCEPT !.pc = "thrown", !.error = error]

\* lines 435 and 479: no field of the level is given
Skip ==
    /\ upd.pc = "decide"
    /\ LevelFields = {}
    /\ upd' = Onward(upd)
    /\ UNCHANGED <<now, rlVars, clsVars, cacheVars, scoreVars, toolVars, tokenVars, upstream>>

\* lines 436-449 and 480-493: PATCH the localization getMetadata found
Patch ==
    /\ upd.pc = "decide"
    /\ LevelFields # {}
    /\ upd.before[upd.level]
    /\ \E ok \in BOOLEAN :
          upd' = IF ok THEN Onward(Logged(upd, "PATCH"))
                 ELSE Failed(Logged(upd, "PATCH"), "upstream")
    /\ generateToken(TheConfig)
    /\ UNCHANGED <<now, rlVars, clsVars, cacheVars, scoreVars, toolVars, upstream>>

\* faulty variant: the create request is sent whatever the lookup gave
LookupAnyway ==
    /\ upd.pc = "decide"
    /\ LevelFields # {}
    /\ ~upd.before[upd.level]
    /\ upd' = IF upd.level = "app" /\ "name" \notin upd.updates
              THEN Failed(Logged(upd, "GET"), "validation")
              ELSE [Logged(upd, "GET") EXCEPT !.pc = "create"]
    /\ generateToken(TheConfig)
    /\ UNCHANGED <<now, rlVars, clsVars, cacheVars, scoreVars, toolVars, upstream>>

\* lines 452-463 and 496-502: getAppInfoId / getEditableVersionId (null
\* when there is none or the request fails), then the check for name
Lookup ==
    /\ upd.pc = "decide"
    /\ LevelFields # {}
    /\ ~upd.before[upd.level]
    /\ \E id \in (IF upstream.container[upd.level] THEN BOOLEAN ELSE {FALSE}) :
          upd' = IF ~id THEN Failed(Logged(upd, "GET"), "notfound")
                 ELSE IF upd.level = "app" /\ "name" \notin upd.updates
                   THEN Failed(Logged(upd, "GET"), "validation")
                 ELSE [Logged(upd, "GET") EXCEPT !.pc = "create"]
    /\ generateToken(TheConfig)
    /\ UNCHANGED <<now, rlVars, clsVars, cacheVars, scoreVars, toolVars, upstream>>

\* lines 464 and 503-508: POST the localization; the API refuses a locale
\* the container already has
Create ==
    /\ upd.pc = "create"
    /\ \E ok \in (IF upstream.loc[upd.level] THEN {FALSE} ELSE BOOLEAN) :
          /\ upd' = IF ok THEN Onward(Logged(upd, "POST"))
                    ELSE Failed(Logged(upd, "POST"), "upstream")
          /\ upstream' = IF ok THEN [upstream EXCEPT !.loc[upd.level] = TRUE]
                         ELSE upstream
    /\ generateToken(TheConfig)
    /\ UNCHANGED <<now, rlVars, clsVars, cacheVars, scoreVars, toolVars>>

\* lines 513-514
ReadAfter ==
    /\ upd.pc = "after"
    /\ upd' = [upd EXCEPT !.pc = "returned"]
    /\ generateToken(TheConfig)
    /\ UNCHANGED <<now, rlVars, clsVars, cacheVars, scoreVars, toolVars, upstream>>

\* the caller has the result or the error
UpdateDone ==
    /\ upd.pc \in {"returned", "thrown"}
    /\ upd' = IdleUpdate
    /\ UNCHANGED <<now, rlVars, clsVars, cacheVars, scoreVars, toolVars, tokenVars, upstream>>

\* between calls, the app is edited in App Store Connect
UpstreamChanges ==
    /\ upd.pc = "idle"
    /\ \E u \in Upstreams : upstream' = u
    /\ UNCHANGED <<now, rlVars, clsVars, cacheVars, scoreVars, toolVars, tokenVars, upd>>

(* --------------------------- metadata reads --------------------------- *)

\* CACHE_TTL.CONNECT_METADATA, in seconds
CONNECT_METADATA == 300

\* /v1/apps/{id}/appInfos: the app's appInfo containers, each by its
\* appStoreState, in the order the API lists them
InfoLists ==
    {<<>>,
     <<"READY_FOR_SALE">>,
     <<"PREPARE_FOR_SUBMISSION">>,
     <<"READY_FOR_SALE", "PREPARE_FOR_SUBMISSION">>,
     <<"WAITING_FOR_REVIEW", "READY_FOR_SALE">>,
     <<"READY_FOR_SALE", "READY_FOR_SALE">>}

\* faulty variant: the first container listed
FirstInfo(allInfos) == IF allInfos = <<>> THEN 0 ELSE 1

\* lines 216-219 and 308-311: the index of the container chosen, 0 for none
EditableInfo(allInfos) ==
    LET editable == {i \in 1..Len(allInfos) : allInfos[i] # "READY_FOR_SALE"}
    IN  IF editable # {} THEN CHOOSE i \in editable : \A j \in editable : i <= j
        ELSE IF allInfos # <<>> THEN 1
        ELSE 0

\* a call of getMetadata, of getAppInfoId, or of the connect_get_metadata
\* handler around getMetadata.  keyFile: the private-key file can be read;
\* chosen[l]: the container picked at level l; caught[l]: the level's catch
\* block ran; loc[l]: the level's localization, as the list data of the
\* response; tried, signs, fetched and failed count the apiRequest calls,
\* those that had to sign a token, those that reached fetch and those that
\* threw
IdleMeta ==
    [pc |-> "idle", op |-> None, level |-> "app", keyFile |-> TRUE,
     key |-> NoKey, allInfos |-> <<>>,
     chosen |-> [l \in Levels |-> 0],
     caught |-> [l \in Levels |-> FALSE],
     loc |-> [l \in Levels |-> <<>>],
     tried |-> 0, signs |-> 0, fetched |-> 0, failed |-> 0,
     result |-> None]

\* lines 274-292: what getMetadata returns for a level: the localization's
\* id and text, each null (the empty list) or one value, and the length
Result(m) ==
    [l \in Levels |->
        [id |-> IF m.loc[l] = <<>> THEN <<>> ELSE <<m.loc[l][1].id>>,
         text |-> IF m.loc[l] = <<>> THEN <<>> ELSE <<m.loc[l][1].text>>,
         length |-> IF m.loc[l] = <<>> THEN 0 ELSE Len(m.loc[l][1].text)]]

\* lines 198-208
getMetadata(keyFile) ==
    /\ meta.pc = "idle"
    /\ meta' = [IdleMeta EXCEPT !.pc = "container", !.op = "getMetadata",
                                !.keyFile = keyFile]
    /\ UNCHANGED <<now, rlVars, clsVars, cacheVars, scoreVars, connectVars, tool>>

\* lines 297-301
getAppInfoId(keyFile) ==
    /\ meta.pc = "idle"
    /\ meta' = [IdleMeta EXCEPT !.pc = "container", !.op = "getAppInfoId",
                                !.keyFile = keyFile]
    /\ UNCHANGED <<now, rlVars, clsVars, cacheVars, scoreVars, connectVars, tool>>

\* connect-get-metadata.ts lines 21-42: the cache is read outside the try
\* block; a hit is returned as it is, a miss goes on to loadConfig and
\* getMetadata
connect_get_metadata(key, config, keyFile) ==
    /\ meta.pc = "idle"
    /\ \E cacheWorks \in BOOLEAN :
          meta' =
            LET m == [IdleMeta EXCEPT !.op = "connect_get_metadata",
                                      !.key = key, !.keyFile = keyFile]
            IN  IF ~cacheWorks THEN [m EXCEPT !.pc = "escaped"]
                ELSE IF getFromCache(key) # Absent
                  THEN [m EXCEPT !.pc = "returned", !.result = "cached"]
                ELSE IF ~config
                  THEN [m EXCEPT !.pc = "returned", !.result = "isError"]
                ELSE [m EXCEPT !.pc = "container"]
    /\ UNCHANGED <<now, rlVars, clsVars, cacheVars, scoreVars, connectVars, tool>>

\* lines 97-135, for the call's counters: generateToken reads the key file
\* unless the cached token is reused (line 72), and throws when it cannot;
\* ok says the request was answered with a 2xx
apiRequest(m, ok) ==
    [m EXCEPT !.tried = @ + 1,
              !.signs = @ + (IF Reusable(TheConfig) THEN 0 ELSE 1),
              !.fetched = @ + (IF Reusable(TheConfig) \/ m.keyFile THEN 1 ELSE 0),
              !.failed = @ + (IF ok THEN 0 ELSE 1)]

\* lines 232-237 and 269-274: on to the version level, then to the return
\* (connect-get-metadata.ts line 44: to the handler's setCache)
NextBlock(m) ==
    IF m.op = "getAppInfoId" THEN [m EXCEPT !.pc = "returned"]
    ELSE IF m.level = "app" THEN [m EXCEPT !.level = "version", !.pc = "container"]
    ELSE IF m.op = "connect_get_metadata" THEN [m EXCEPT !.pc = "store"]
    ELSE [m EXCEPT !.pc = "returned"]

\* faulty variant: the exception leaves getMetadata
Rethrown(m) == [m EXCEPT !.pc = "thrown"]

\* lines 233-235, 270-272 and 312-314: the catch block of the level
Caught(m) == NextBlock([m EXCEPT !.caught[m.level] = TRUE])

\* lines 211-221, 248-254 and 302-311: the request for the level's
\* containers (appInfos; the versions in PREPARE_FOR_SUBMISSION, limit 1)
FetchContainer ==
    /\ meta.pc = "container"
    /\ \E ok \in (IF Reusable(TheConfig) \/ meta.keyFile THEN BOOLEAN ELSE {FALSE}),
          infos \in InfoLists :
          /\ meta.level = "app" => (infos # <<>>) = upstream.container["app"]
          /\ meta.level = "version" =>
                infos = IF upstream.container["version"]
                        THEN <<"PREPARE_FOR_SUBMISSION">> ELSE <<>>
          /\ meta' =
               LET r == apiRequest(meta, ok)
                   id == IF meta.level = "app" THEN EditableInfo(infos)
                         ELSE IF infos = <<>> THEN 0 ELSE 1
                   s == [r EXCEPT !.chosen[meta.level] = id,
                                  !.allInfos = IF meta.level = "app" THEN infos ELSE @]
               IN  IF ~ok THEN Caught(r)
                   ELSE IF id = 0 \/ meta.op = "getAppInfoId" THEN NextBlock(s)
                   ELSE [s EXCEPT !.pc = "localization"]
    /\ IF Reusable(TheConfig) \/ meta.keyFile THEN generateToken(TheConfig)
       ELSE UNCHANGED tokenVars
    /\ UNCHANGED <<now, rlVars, clsVars, cacheVars, scoreVars, upstream, upd, tool>>

\* the text of the app's localizations upstream: what the update tool
\* under way has written, if it has written, else the text before
UpstreamText == IF tool.wrote THEN <<"n", "e", "w">> ELSE <<"t", "x", "t">>

\* lines 222-231 and 255-268: the request for the container's localization
\* of the locale
FetchLocalization ==
    /\ meta.pc = "localization"
    /\ \E ok \in (IF Reusable(TheConfig) \/ meta.keyFile THEN BOOLEAN ELSE {FALSE}) :
          meta' =
            LET r == apiRequest(meta, ok)
            IN  IF ~ok THEN Caught(r)
                ELSE NextBlock([r EXCEPT !.loc[meta.level] =
                                    IF upstream.loc[meta.level]
                                    THEN <<[id |-> meta.level, text |-> UpstreamText]>>
                                    ELSE <<>>])
    /\ IF Reusable(TheConfig) \/ meta.keyFile THEN generateToken(TheConfig)
       ELSE UNCHANGED tokenVars
    /\ UNCHANGED <<now, rlVars, clsVars, cacheVars, scoreVars, upstream, upd, tool>>

\* faulty variant: what the handler returns is cached, an error included
StoreUnguarded ==
    /\ meta.pc = "store"
    /\ \E cacheWorks \in BOOLEAN :
          LET text == IF \A l \in Levels : meta.loc[l] = <<>> THEN "v1" ELSE "v2"
              ins == InsertOrReplace(cache, meta.key, text, CONNECT_METADATA)
          IN  \E t \in (IF Count(ins) > MAX_CACHE_ENTRIES
                        THEN enforceSizeLimit(ins) ELSE {ins}) :
                /\ cache' = t
                /\ order' = SelectSeq2(Append(SelectSeq2(order, Keys \ {meta.key}),
                                              meta.key), Rows(t))
                /\ meta' = [meta EXCEPT !.pc = "returned",
                               !.result = IF cacheWorks THEN "success" ELSE "isError"]
    /\ got' = NoGet
    /\ lastSet' = NoSet
    /\ lastDel' = NoDel
    /\ UNCHANGED <<now, rlVars, clsVars, scoreVars, connectVars, tool>>

\* connect-get-metadata.ts lines 44-82: the result is cached for
\* CACHE_TTL.CONNECT_METADATA seconds and returned; setCache throwing is
\* caught and gives an error result
Store ==
    /\ meta.pc = "store"
    /\ \E cacheWorks \in BOOLEAN :
          IF cacheWorks
          THEN LET text == IF \A l \in Levels : meta.loc[l] = <<>> THEN "v1" ELSE "v2"
                   ins == InsertOrReplace(cache, meta.key, text, CONNECT_METADATA)
               IN  \E t \in (IF Count(ins) > MAX_CACHE_ENTRIES
                             THEN enforceSizeLimit(ins) ELSE {ins}) :
                     /\ cache' = t
                     /\ order' = SelectSeq2(Append(SelectSeq2(order, Keys \ {meta.key}),
                                                   meta.key), Rows(t))
                     /\ meta' = [meta EXCEPT !.pc = "returned", !.result = "success"]
          ELSE /\ meta' = [meta EXCEPT !.pc = "returned", !.result = "isError"]
               /\ UNCHANGED <<cache, order>>
    /\ got' = NoGet
    /\ lastSet' = NoSet
    /\ lastDel' = NoDel
    /\ UNCHANGED <<now, rlVars, clsVars, scoreVars, connectVars, tool>>

\* the caller has the result, the error or the rejected promise
MetaDone ==
    /\ meta.pc \in {"returned", "thrown", "escaped"}
    /\ meta' = IdleMeta
    /\ UNCHANGED <<now, rlVars, clsVars, cacheVars, scoreVars, connectVars, tool>>

MetaNext ==
    \/ \E k \in BOOLEAN : getMetadata(k) \/ getAppInfoId(k)
    \/ \E key \in {<<"f", ":", "a">>, <<"f", ":", "b">>}, c, k \in BOOLEAN :
          connect_get_metadata(key, c, k)
    \/ FetchContainer
    \/ FetchLocalization
    \/ Store
    \/ MetaDone
    \/ meta.pc = "idle" /\ UpstreamChanges

(* ------------------------ metadata-update tools ----------------------- *)

\* utils/constants.ts, as the tools and the tests of the repository use it
CHAR_LIMITS ==
    [TITLE |-> 30, SUBTITLE |-> 30, KEYWORD_FIELD |-> 100,
     DESCRIPTION |-> 4000, PROMOTIONAL_TEXT |-> 170, WHATS_NEW |-> 4000]

\* the update of one locale: the length of each field given, Undefined for
\* a field left out
UpdateInputs ==
    [name : {Undefined, 30, 31}, keywords : {Undefined, 101},
     description : {Undefined, 4001}]

\* the updates arrays of connect_batch_update_metadata
BatchInputs == UNION {[1..n -> UpdateInputs] : n \in {1, 2}}

\* faulty variant: the limits of name, subtitle and keywords only
ViolationsShortOnly(update) ==
    {f \in {"name", "keywords"} :
        /\ update[f] # Undefined
        /\ update[f] > (IF f = "name" THEN CHAR_LIMITS.TITLE
                        ELSE CHAR_LIMITS.KEYWORD_FIELD)}

\* part_012 lines 56-73 and analyze-reviews.ts lines 501-543: the fields of
\* an update that exceed their limit
Violations(update) ==
    {f \in {"name", "keywords", "description"} :
        /\ update[f] # Undefined
        /\ update[f] > (CASE f = "name" -> CHAR_LIMITS.TITLE
                          [] f = "keywords" -> CHAR_LIMITS.KEYWORD_FIELD
                          [] f = "description" -> CHAR_LIMITS.DESCRIPTION)}

\* a handler call.  i: the update the loop stands at; inflight: the updates
\* whose updateMetadata call is awaited; calls: the updateMetadata calls
\* started; wrote: one of them changed the app upstream; cacheFailed: a
\* deleteCache of the call threw
IdleTool ==
    [pc |-> "idle", name |-> None, config |-> TRUE, updates |-> <<>>, i |-> 0,
     inflight |-> {}, results |-> <<>>, calls |-> 0, wrote |-> FALSE,
     cacheFailed |-> FALSE,
     result |-> [status |-> None, isError |-> FALSE, errors |-> {}]]

\* part_012 lines 120-121 and analyze-reviews.ts lines 589-590: the table
\* after the first n deleteCache calls of the invalidation
Invalidate(t, n) ==
    LET first == {k \in Rows(t) : Like(k, <<"f", ":", "%">>)}
        second == {k \in Rows(t) : Like(k, <<"g", ":", "a">>)}
    IN  Remove(t, IF n = 0 THEN {} ELSE IF n = 1 THEN first ELSE first \cup second)

\* analyze-reviews.ts lines 482-586: up to the call of updateMetadata
connect_update_metadata(config, update) ==
    /\ tool.pc = "idle"
    /\ tool' =
         LET t == [IdleTool EXCEPT !.name = "connect_update_metadata",
                                   !.config = config, !.updates = <<update>>,
                                   !.pc = "returned", !.result.isError = TRUE]
         IN  IF ~config THEN [t EXCEPT !.result.status = "not_configured"]
             ELSE IF Violations(update) # {}
               THEN [t EXCEPT !.result.status = "validation_failed",
                              !.result.errors = {<<1, f>> : f \in Violations(update)}]
             ELSE IF \A f \in DOMAIN update : update[f] = Undefined
               THEN [t EXCEPT !.result.status = "no_fields"]
             ELSE [t EXCEPT !.pc = "calling", !.result.isError = FALSE,
                            !.i = 1, !.inflight = {1}, !.calls = 1]
    /\ UNCHANGED <<now, rlVars, clsVars, cacheVars, scoreVars, connectVars, meta>>

\* part_012 lines 37-98: up to the loop
connect_batch_update_metadata(config, updates) ==
    /\ tool.pc = "idle"
    /\ tool' =
         LET t == [IdleTool EXCEPT !.name = "connect_batch_update_metadata",
                                   !.config = config, !.updates = updates,
                                   !.pc = "returned", !.result.isError = TRUE]
             errors == UNION {{<<j, f>> : f \in Violations(updates[j])} :
                                j \in 1..Len(updates)}
         IN  IF ~config THEN [t EXCEPT !.result.status = "not_configured"]
             ELSE IF errors # {}
               THEN [t EXCEPT !.result.status = "validation_failed",
                              !.result.errors = errors]
             ELSE [t EXCEPT !.pc = "loop", !.result.isError = FALSE, !.i = 1]
    /\ UNCHANGED <<now, rlVars, clsVars, cacheVars, scoreVars, connectVars, meta>>

\* faulty variant: the call is started and not awaited
NextLocaleEager ==
    /\ tool.pc = "loop"
    /\ tool.i <= Len(tool.updates)
    /\ tool' =
         IF \A f \in DOMAIN tool.updates[tool.i] : tool.updates[tool.i][f] = Undefined
         THEN [tool EXCEPT !.results = Append(@, [index |-> tool.i, status |-> "error"]),
                           !.i = @ + 1]
         ELSE [tool EXCEPT !.inflight = @ \cup {tool.i}, !.calls = @ + 1,
                           !.i = @ + 1]
    /\ UNCHANGED <<now, rlVars, clsVars, cacheVars, scoreVars, connectVars, meta>>

\* part_012 lines 100-109: the loop takes the next update; one without a
\* field gets an error result, for the others updateMetadata is called
NextLocale ==
    /\ tool.pc = "loop"
    /\ tool.i <= Len(tool.updates)
    /\ tool' =
         IF \A f \in DOMAIN tool.updates[tool.i] : tool.updates[tool.i][f] = Undefined
         THEN [tool EXCEPT !.results = Append(@, [index |-> tool.i, status |-> "error"]),
                           !.i = @ + 1]
         ELSE [tool EXCEPT !.pc = "calling", !.inflight = @ \cup {tool.i},
                           !.calls = @ + 1]
    /\ UNCHANGED <<now, rlVars, clsVars, cacheVars, scoreVars, connectVars, meta>>

\* part_012 lines 109-116 and analyze-reviews.ts lines 581-586, 644-651:
\* the awaited updateMetadata returns or throws; a call that throws can
\* have written one of the two levels before
Settle ==
    /\ tool.pc = "calling"
    /\ \E ok, w \in BOOLEAN :
          /\ ok => w
          /\ tool' =
               LET t == [tool EXCEPT !.inflight = @ \ {tool.i},
                                     !.wrote = @ \/ w, !.i = @ + 1]
               IN  IF tool.name = "connect_batch_update_metadata"
                   THEN [t EXCEPT !.pc = "loop",
                                  !.results = Append(@,
                                      [index |-> tool.i,
                                       status |-> IF ok THEN "success" ELSE "error"])]
                   ELSE IF ok THEN [t EXCEPT !.pc = "loop"]
                   ELSE [t EXCEPT !.pc = "returned", !.result.isError = TRUE,
                                  !.result.status = "error"]
    /\ UNCHANGED <<now, rlVars, clsVars, cacheVars, scoreVars, connectVars, meta>>

\* faulty variant: any failed locale makes the batch failed
RespondAllOrNothing ==
    /\ tool.pc = "loop"
    /\ tool.i > Len(tool.updates)
    /\ cache' = Invalidate(cache, 2)
    /\ order' = SelectSeq2(order, Rows(cache'))
    /\ tool' = [tool EXCEPT !.pc = "returned",
                  !.result.status =
                      IF \A j \in 1..Len(tool.results) : tool.results[j].status = "success"
                      THEN "success" ELSE "failed"]
    /\ got' = NoGet
    /\ lastSet' = NoSet
    /\ lastDel' = NoDel
    /\ UNCHANGED <<now, rlVars, clsVars, scoreVars, connectVars, meta>>

\* part_012 lines 119-146 and analyze-reviews.ts lines 588-651: the cached
\* reads of the app are deleted and the result is built; a deleteCache that
\* throws is caught by the handler and gives an error result
Respond ==
    /\ tool.pc = "loop"
    /\ tool.i > Len(tool.updates)
    /\ \E done \in {0, 1, 2} :
          /\ cache' = Invalidate(cache, done)
          /\ order' = SelectSeq2(order, Rows(cache'))
          /\ tool' =
               LET succeeded == Cardinality({j \in 1..Len(tool.results) :
                                                tool.results[j].status = "success"})
                   failed == Cardinality({j \in 1..Len(tool.results) :
                                                tool.results[j].status = "error"})
               IN  IF done < 2
                   THEN [tool EXCEPT !.pc = "returned", !.cacheFailed = TRUE,
                                     !.result.isError = TRUE,
                                     !.result.status = "error"]
                   ELSE [tool EXCEPT !.pc = "returned",
                           !.result.status =
                              IF tool.name = "connect_update_metadata" \/ failed = 0
                              THEN "success"
                              ELSE IF succeeded > 0 THEN "partial" ELSE "failed"]
    /\ got' = NoGet
    /\ lastSet' = NoSet
    /\ lastDel' = NoDel
    /\ UNCHANGED <<now, rlVars, clsVars, scoreVars, connectVars, meta>>

\* the caller has the handler's result
ToolDone ==
    /\ tool.pc = "returned"
    /\ tool' = IdleTool
    /\ UNCHANGED <<now, rlVars, clsVars, cacheVars, scoreVars, connectVars, meta>>

\* between the calls, reads of the app's metadata fill the cache
ToolNext ==
    \/ \E c \in BOOLEAN, u \in UpdateInputs : connect_update_metadata(c, u)
    \/ \E c \in BOOLEAN, us \in BatchInputs : connect_batch_update_metadata(c, us)
    \/ NextLocale
    \/ Settle
    \/ Respond
    \/ ToolDone
    \/ tool.pc = "idle" /\ \E k \in Keys : setCache(k, "v1", 2)

\* connect_get_metadata and connect_update_metadata of one app, one call
\* of each, their steps in any order
RaceNext ==
    \/ \E k \in {<<"f", ":", "a">>, <<"f", ":", "b">>}, c \in BOOLEAN :
          connect_get_metadata(k, c, TRUE)
    \/ FetchContainer
    \/ FetchLocalization
    \/ Store
    \/ \E c \in BOOLEAN, u \in UpdateInputs : connect_update_metadata(c, u)
    \/ Settle
    \/ Respond
    \/ meta.pc = "idle" /\ tool.pc = "idle" /\ UpstreamChanges

ConnectIdle ==
    /\ cachedToken = NoToken
    /\ cachedTokenExpiry = 0
    /\ cachedTokenConfigKey = <<>>
    /\ lastToken = NoTokenCall
    /\ upstream = [container |-> [l \in Levels |-> TRUE], loc |-> [l \in Levels |-> FALSE]]
    /\ upd = IdleUpdate
    /\ meta = IdleMeta
    /\ tool = IdleTool

TokenNext == (\E c \in Configs : GetToken(c)) \/ TokenTick

UpdateNext ==
    \/ \E u \in SUBSET {"name", "subtitle", "keywords"} : updateMetadata(u)
    \/ ReadBefore
    \/ Skip
    \/ Patch
    \/ Lookup
    \/ Create
    \/ ReadAfter
    \/ UpdateDone
    \/ UpstreamChanges

\* ---------------------------------------------------------------------
\* custom-scoring.ts and the sanitizer of app-store-connect.ts: functions
\* of their arguments alone
\* ---------------------------------------------------------------------

Max2(a, b) == IF a > b THEN a ELSE b

\* traffic and difficulty, in tenths
Tenths == 0..100

\* faulty variant: the two weights are exchanged
calculateOpportunityScoreSwapped(traffic, difficulty) ==
    IF traffic = 0 /\ difficulty = 0
    THEN 500
    ELSE Max2(0, Min2(1000, 8 * traffic - 15 * difficulty + 500))

\* custom-scoring.ts lines 81-89; the arguments in tenths, the score in
\* hundredths: 100 * (1.5 * t/10 - 0.8 * d/10 + 5) = 15 t - 8 d + 500
calculateOpportunityScore(traffic, difficulty) ==
    IF traffic = 0 /\ difficulty = 0
    THEN 500
    ELSE Max2(0, Min2(1000, 15 * traffic - 8 * difficulty + 500))

\* the apps of a keyword's top list: rating in tenths of a star (absent:
\* Undefined), reviews as a count
Apps == [rating : {Undefined, 30, 50}, reviews : {0, 10, 1000, 10000000},
         free : BOOLEAN]
AppLists == {<<>>} \cup {<<a>> : a \in Apps} \cup {<<a, b>> : a \in Apps, b \in Apps}

\* Array.prototype.reduce with a sum, over a list of numbers
RECURSIVE Sum(_)
Sum(s) == IF s = <<>> THEN 0 ELSE Head(s) + Sum(Tail(s))

\* floor(1000 * Math.log10(x)) at the averages the review counts above give
Log10Milli(x) ==
    CASE x = 1 -> 0
      [] x = 5 -> 698
      [] x = 10 -> 1000
      [] x = 500 -> 2698
      [] x = 505 -> 2703
      [] x = 1000 -> 3000
      [] x = 5000000 -> 6698
      [] x = 5000005 -> 6698
      [] x = 5000500 -> 6699
      [] x = 10000000 -> 7000

\* lines 58-63, as sums (the averages are these sums over the length)
RatingSum(topApps) == Sum([i \in 1..Len(topApps) |-> Coalesce(topApps[i].rating)])
ReviewSum(topApps) == Sum([i \in 1..Len(topApps) |-> topApps[i].reviews])
FreeCount(topApps) == Cardinality({i \in 1..Len(topApps) : topApps[i].free})

\* faulty variant: free apps make the keyword easier
calculateCompetitiveScoreFreeEasier(topApps) ==
    IF Len(topApps) = 0
    THEN 0
    ELSE LET n == Len(topApps)
             ratingDifficulty == (RatingSum(topApps) * 60) \div n
             reviewDifficulty ==
                 Min2(4000, (Log10Milli(Max2(1, ReviewSum(topApps) \div n)) * 4) \div 5)
             freeDifficulty == 3000 - (FreeCount(topApps) * 3000) \div n
         IN  Min2(10000, ratingDifficulty + reviewDifficulty + freeDifficulty)

\* custom-scoring.ts lines 52-76, the score in thousandths: the rating part
\* is 1000 * (avg/10 / 5) * 3 = 60 * sum / n, the review part
\* 1000 * log10(max(1, avg)) / 1.25, the free part 3000 * count / n
calculateCompetitiveScore(topApps) ==
    IF Len(topApps) = 0
    THEN 0
    ELSE LET n == Len(topApps)
             ratingDifficulty == (RatingSum(topApps) * 60) \div n
             reviewDifficulty ==
                 Min2(4000, (Log10Milli(Max2(1, ReviewSum(topApps) \div n)) * 4) \div 5)
             freeDifficulty == (FreeCount(topApps) * 3000) \div n
         IN  Min2(10000, ratingDifficulty + reviewDifficulty + freeDifficulty)

\* texts, as sequences of characters, put together from up to three pieces
Pieces ==
    {<<"&", "a", "m", "p", ";">>, <<"&", "l", "t", ";">>,
     <<"a", "m", "p", ";">>, <<"l", "t", ";">>, <<"&">>, <<"x">>}
Texts ==
    {<<>>} \cup Pieces \cup {p \o q : p \in Pieces, q \in Pieces}
           \cup {p \o q \o r : p \in Pieces, q \in Pieces, r \in Pieces}

\* a field of an update: no element when undefined, else its text
Fields == {<<>>} \cup {<<t>> : t \in Texts}
SanitizeInputs ==
    [name : Fields,
     keywords : {<<>>, <<<<"x">>>>, <<<<"&", "l", "t", ";", "&", "l", "t", ";">>>>}]

Prefixed(s, pat) ==
    Len(s) >= Len(pat) /\ \A j \in 1..Len(pat) : s[j] = pat[j]

\* String.prototype.replace with a /g pattern of literal characters: the
\* matches from left to right, none overlapping, each replaced by rep
RECURSIVE ReplaceAll(_, _, _)
ReplaceAll(s, pat, rep) ==
    IF s = <<>> THEN <<>>
    ELSE IF Prefixed(s, pat)
         THEN rep \o ReplaceAll(SubSeq(s, Len(pat) + 1, Len(s)), pat, rep)
         ELSE <<Head(s)>> \o ReplaceAll(Tail(s), pat, rep)

\* String.prototype.replace with a pattern without /g: the first match only
RECURSIVE ReplaceFirst(_, _, _)
ReplaceFirst(s, pat, rep) ==
    IF s = <<>> THEN <<>>
    ELSE IF Prefixed(s, pat)
         THEN rep \o SubSeq(s, Len(pat) + 1, Len(s))
         ELSE <<Head(s)>> \o ReplaceFirst(Tail(s), pat, rep)

EntAmp == <<"&", "a", "m", "p", ";">>
EntLt == <<"&", "l", "t", ";">>
EntGt == <<"&", "g", "t", ";">>
EntQuot == <<"&", "q", "u", "o", "t", ";">>
EntApos == <<"&", "#", "3", "9", ";">>
EntAposHex == <<"&", "#", "x", "2", "7", ";">>
EntSlashHex == <<"&", "#", "x", "2", "F", ";">>

\* faulty variant: the patterns lack /g
decodeHtmlEntitiesFirstOnly(text) ==
    ReplaceFirst(ReplaceFirst(ReplaceFirst(ReplaceFirst(ReplaceFirst(
    ReplaceFirst(ReplaceFirst(text,
        EntAmp, <<"&">>),
        EntLt, <<"<">>),
        EntGt, <<">">>),
        EntQuot, <<"\"">>),
        EntApos, <<"'">>),
        EntAposHex, <<"'">>),
        EntSlashHex, <<"/">>)

\* app-store-connect.ts lines 394-403: seven replacements, one after the
\* other, &amp; first
decodeHtmlEntities(text) ==
    ReplaceAll(ReplaceAll(ReplaceAll(ReplaceAll(ReplaceAll(
    ReplaceAll(ReplaceAll(text,
        EntAmp, <<"&">>),
        EntLt, <<"<">>),
        EntGt, <<">">>),
        EntQuot, <<"\"">>),
        EntApos, <<"'">>),
        EntAposHex, <<"'">>),
        EntSlashHex, <<"/">>)

\* lines 405-412: every field that is not undefined is decoded
sanitizeUpdates(updates) ==
    [f \in DOMAIN updates |->
        IF updates[f] = <<>> THEN <<>> ELSE <<decodeHtmlEntities(updates[f][1])>>]

CalcInputs(fn, S) == {[fn |-> fn, in |-> x, done |-> FALSE, out |-> 0] : x \in S}

\* a caller calls calculateOpportunityScore
OpportunityCall ==
    /\ calc.fn = "opportunity"
    /\ ~calc.done
    /\ calc' = [calc EXCEPT !.done = TRUE,
                            !.out = calculateOpportunityScore(calc.in[1], calc.in[2])]
    /\ UNCHANGED <<now, rlVars, err, verdict, cacheVars, scoreVars, connectVars, toolVars>>

\* a caller calls calculateCompetitiveScore
CompetitiveCall ==
    /\ calc.fn = "competitive"
    /\ ~calc.done
    /\ calc' = [calc EXCEPT !.done = TRUE,
                            !.out = calculateCompetitiveScore(calc.in)]
    /\ UNCHANGED <<now, rlVars, err, verdict, cacheVars, scoreVars, connectVars, toolVars>>

\* updateMetadata calls sanitizeUpdates (line 425)
SanitizeCall ==
    /\ calc.fn = "sanitize"
    /\ ~calc.done
    /\ calc' = [calc EXCEPT !.done = TRUE, !.out = sanitizeUpdates(calc.in)]
    /\ UNCHANGED <<now, rlVars, err, verdict, cacheVars, scoreVars, connectVars, toolVars>>

CalcNext == OpportunityCall \/ CompetitiveCall \/ SanitizeCall

CalcInit ==
    /\ now = 0 /\ RLIdle /\ CacheIdle /\ ScoreIdle /\ ConnectIdle
    /\ err = NoError /\ verdict = "none"
    /\ \/ calc \in CalcInputs("opportunity", Tenths \X Tenths)
       \/ calc \in CalcInputs("competitive", AppLists)
       \/ calc \in CalcInputs("sanitize", SanitizeInputs)

CalcSpec == CalcInit /\ [][CalcNext]_vars

(* -------------------------- specifications ---------------------------- *)

RLInit == now = 0 /\ RLIdle /\ ClsIdle /\ CacheIdle /\ ScoreIdle /\ ConnectIdle

RLSpec == RLInit /\ [][RLNext]_vars

ClassifyInit ==
    now = 0 /\ RLIdle /\ CacheIdle /\ ScoreIdle /\ ConnectIdle /\ err \in Errors /\ verdict = "none"
    /\ calc = NoCalc

ClassifySpec == ClassifyInit /\ [][ClassifyNext]_vars

CacheInit == now = 0 /\ RLIdle /\ ClsIdle /\ CacheIdle /\ ScoreIdle /\ ConnectIdle

CacheSpec == CacheInit /\ [][CacheNext]_vars

ScoreInit == now = 0 /\ RLIdle /\ ClsIdle /\ CacheIdle /\ ScoreIdle /\ ConnectIdle

ScoreSpec == ScoreInit /\ [][ScoreNext]_vars

BatchSpec == ScoreInit /\ [][BatchNext]_vars

\* withRateLimit's timers fire: a call it holds back reaches its operation
ScoreLiveSpec ==
    /\ ScoreInit
    /\ [][ScoreNext]_vars
    /\ \A t \in Tasks : WF_vars(StartOperation(t)) /\ WF_vars(RetryOperation(t))

TokenSpec == ScoreInit /\ [][TokenNext]_vars

UpdateSpec == ScoreInit /\ [][UpdateNext]_vars

MetaSpec == ScoreInit /\ [][MetaNext]_vars

ToolSpec == ScoreInit /\ [][ToolNext]_vars

RaceSpec == ScoreInit /\ [][RaceNext]_vars

\* timers fire, the clock runs and every attempt of an operation settles
RLFairness ==
    /\ WF_vars(Tick)
    /\ \A c \in Callers :
          /\ WF_vars(Wake(c))
          /\ WF_vars(Retry(c))
          /\ WF_vars(OpSucceed(c) \/ \E e \in OpErrors : OpFail(c, e))

RLLiveSpec == RLInit /\ [][RLNext]_vars /\ RLFairness

(* ------------------------------ claims -------------------------------- *)

Completed(c) == call[c].pc \in {"returned", "thrown"}

RetryableFailure(o) == ~o.ok /\ isRetryable(o.error)

FatalFailure(o) == ~o.ok /\ ~isRetryable(o.error)

AllRetryable(h, n) == \A i \in 1..n : RetryableFailure(h[i])

\* C2: on every source the number of calls admitted so far is at most
\* maxRequests plus the tokens refilled since the bucket was created,
\* (now - created) / windowMs * maxRequests
C2_NoOverIssue ==
    \A s \in Sources :
        buckets[s] # NoBucket =>
            admitted[s] * RATE_LIMITS[s].windowMs
                <= Capacity(RATE_LIMITS[s])
                   + (now - created[s]) * RATE_LIMITS[s].maxRequests

\* C3: of the calls that arrive at a fresh bucket with no time elapsed, the
\* first maxRequests start their operation without waiting, and call
\* maxRequests+1 waits a strictly positive time, and its operation does not
\* start before that time has passed
C3_FreshBurst ==
    \A c \in Callers :
        (call[c].pc # "idle" /\ call[c].fresh) =>
            LET s == call[c].source
                n == RATE_LIMITS[s].maxRequests
            IN  /\ call[c].idx <= n =>
                    call[c].waitMs = 0 /\ call[c].pc # "waiting"
                /\ call[c].idx = n + 1 =>
                    /\ call[c].waitMs > 0
                    /\ call[c].pc # "waiting" => now >= created[s] + call[c].waitMs

\* C3 witness: call maxRequests+1 on a fresh bucket has waited and runs
C3_Witness ==
    \E c \in Callers :
        /\ call[c].fresh
        /\ call[c].idx = RATE_LIMITS[call[c].source].maxRequests + 1
        /\ call[c].pc = "running"
        /\ call[c].waitMs > 0

\* C4: every bucket holds between 0 and maxRequests tokens
C4_TokensInRange ==
    \A s \in Sources :
        buckets[s] # NoBucket =>
            /\ 0 <= buckets[s].tokens
            /\ buckets[s].tokens <= Capacity(RATE_LIMITS[s])

\* C4 witness: two calls wait on one empty bucket while a third has woken
\* and taken the token the wait stands for
C4_Witness ==
    \E c, d \in Callers :
        /\ c # d
        /\ call[c].pc = "running" /\ call[c].waitMs > 0
        /\ call[d].pc = "waiting" /\ call[d].source = call[c].source
        /\ buckets[call[c].source].tokens = 0

\* C5: a call whose operation fails k times (1 <= k <= 3) with retryable
\* errors and then succeeds returns the success after exactly k+1
\* attempts: it is not given up after k retryable failures, and once
\* attempt k+1 has resolved it has returned and made no further attempt
C5_RetryThenSuccess ==
    \A c \in Callers :
        LET h == call[c].hist
        IN  \A k \in 1..MAX_RETRIES :
                /\ (call[c].pc = "thrown" /\ Len(h) = k) => ~AllRetryable(h, k)
                /\ (Len(h) > k /\ AllRetryable(h, k) /\ h[k + 1].ok) =>
                        /\ call[c].pc = "returned"
                        /\ Len(h) = k + 1
                        /\ call[c].attempt = k

\* C5 witness: two 503 failures, then success at the third attempt
C5_Witness ==
    \E c \in Callers :
        /\ call[c].pc = "returned"
        /\ call[c].hist = <<Rejected(ErrUnavailable), Rejected(ErrUnavailable), Resolved>>

\* C6: when every attempt fails with a retryable error the operation is
\* attempted exactly 4 times, the waits before the retries are 1000, 2000
\* and 4000 ms in that order, and the error thrown is the last attempt's
C6_RetriesExhausted ==
    \A c \in Callers :
        LET h == call[c].hist
        IN  /\ Len(h) <= MAX_RETRIES + 1
            /\ call[c].attempt <= MAX_RETRIES
            /\ (call[c].pc = "thrown" /\ AllRetryable(h, Len(h))) =>
                    /\ Len(h) = 4
                    /\ call[c].attempt = 3
                    /\ call[c].delays = <<1000, 2000, 4000>>
                    /\ call[c].lastError = h[4].error
            /\ (Len(h) = 4 /\ AllRetryable(h, 4)) => call[c].pc = "thrown"
            /\ (call[c].pc \in {"running", "backoff"} /\ AllRetryable(h, Len(h))) =>
                    call[c].delays = SubSeq(<<1000, 2000, 4000>>, 1, Len(call[c].delays))

\* C6 witness: four retryable failures, the call has thrown
C6_Witness ==
    \E c \in Callers :
        /\ call[c].pc = "thrown"
        /\ Len(call[c].hist) = 4
        /\ AllRetryable(call[c].hist, 4)

\* C7: an attempt that fails with a non-retryable error is the call's last
\* attempt: the call throws that error, and no backoff follows the failure
C7_FatalAtOnce ==
    \A c \in Callers :
        LET h == call[c].hist
        IN  \A i \in 1..Len(h) :
                FatalFailure(h[i]) =>
                    /\ i = Len(h)
                    /\ call[c].pc = "thrown"
                    /\ call[c].lastError = h[i].error
                    /\ call[c].attempt = i - 1
                    /\ Len(call[c].delays) = i - 1

\* C7 witness: a non-retryable failure at the second attempt has been thrown
C7_Witness ==
    \E c \in Callers :
        /\ call[c].pc = "thrown"
        /\ Len(call[c].hist) = 2
        /\ FatalFailure(call[c].hist[2])

\* C9: every call that has completed executed its operation at least once,
\* and every call under way (waiting for a token, running an attempt or
\* backing off) eventually returns or throws
C9_EveryCallCompletes ==
    /\ [](\A c \in Callers : Completed(c) => Len(call[c].hist) >= 1)
    /\ \A c \in Callers :
          (call[c].pc \in {"waiting", "running", "backoff"}) ~> Completed(c)

\* C9 witness: a call that waited for a token on a bucket another call also
\* waited on has completed
C9_Witness ==
    \E c, d \in Callers :
        /\ c # d
        /\ Completed(c) /\ call[c].waitMs > 0
        /\ call[d].waitMs > 0 /\ call[d].source = call[c].source

\* what C8 counts as an error that indicates HTTP 429, HTTP 503 or a
\* transient network condition: by its status, its code or its message
Indicates(e) ==
    \/ e.status \in {429, 503} \/ e.statusCode \in {429, 503}
    \/ e.code \in RETRY_ERRORS
    \/ \E pat \in {Chars429, Chars503, CharsECONNRESET, CharsETIMEDOUT,
                     CharsENOTFOUND, CharsEAI_AGAIN} : Includes(e.message, pat)

\* C8: isRetryable answers true exactly for the errors that indicate HTTP
\* 429, HTTP 503 or a transient network condition
C8_RetryableExactly ==
    verdict # "none" => (verdict = "retryable" <=> Indicates(err))

\* C1 as stated: a row written by setCache(k, v, ttl) at time t, and still
\* in the table, is read as v at every time before t + ttl seconds and as
\* absent from t + ttl seconds on
C1_TtlToTheMillisecond ==
    got.key \in Rows(cache) =>
        got.result = IF now < cache[got.key].setAt + cache[got.key].ttl * 1000
                     THEN cache[got.key].value
                     ELSE Absent

\* C1 amended: the row is read as v while the clock's whole second is below
\* floor(t) + ttl, and as absent from that second on
C1_TtlInWholeSeconds ==
    got.key \in Rows(cache) =>
        got.result = IF now \div 1000 < (cache[got.key].setAt \div 1000) + cache[got.key].ttl
                     THEN cache[got.key].value
                     ELSE Absent

\* C1 witness: a row is read as absent less than ttl seconds after it was set
C1_Witness ==
    /\ got.key \in Rows(cache)
    /\ got.result = Absent
    /\ now < cache[got.key].setAt + cache[got.key].ttl * 1000

\* C10 as stated: setCache of a new key into a table of exactly capacity
\* rows, none expired, leaves capacity rows and removes the one row that was
\* inserted earliest
C10_EvictsEarliestInserted ==
    lastSet.full =>
        /\ Count(cache) = MAX_CACHE_ENTRIES
        /\ lastSet.removed = {lastSet.earliest}

\* C10 amended: it leaves capacity rows and removes one row, a row of least
\* created_at (whole seconds); the earliest inserted row is among those
C10_EvictsLeastCreatedAt ==
    lastSet.full =>
        /\ Count(cache) = MAX_CACHE_ENTRIES
        /\ Cardinality(lastSet.removed) = 1
        /\ lastSet.removed \subseteq lastSet.minKeys
        /\ lastSet.earliest \in lastSet.minKeys

\* C10 witness: a full table took a new key and lost its earliest row
C10_Witness ==
    /\ lastSet.full
    /\ lastSet.removed = {lastSet.earliest}
    /\ lastSet.key \in Rows(cache)

\* C11: after every operation of the cache (initCache, setCache,
\* deleteCache, clearCache) the table holds at most capacity rows
C11_AtMostCapacity == Count(cache) <= MAX_CACHE_ENTRIES

\* C11 witness: setCache has added a new key to a table of capacity rows,
\* one row had to go and the table is at capacity
C11_Witness ==
    /\ lastSet.key \in Rows(cache)
    /\ lastSet.before = NoEntry
    /\ Cardinality(lastSet.removed) = 1
    /\ Count(cache) = MAX_CACHE_ENTRIES

StartsWith(key, prefix) ==
    Len(key) >= Len(prefix) /\ SubSeq(key, 1, Len(prefix)) = prefix

\* the pattern "f:%" and the prefix "f:" it is read as
FooPattern == <<"f", ":", "%">>

FooPrefix == <<"f", ":">>

\* C12: deleteCache("f:%") removes every row whose key starts with "f:",
\* removes no row whose key does not start with "f:", and leaves value,
\* expiry and creation time of the remaining rows as they were
C12_RemovesThePrefixOnly ==
    lastDel.pattern = FooPattern =>
        /\ \A k \in Rows(cache) : ~StartsWith(k, FooPrefix)
        /\ \A k \in lastDel.removed : StartsWith(k, FooPrefix)
        /\ lastDel.touched = {}

\* C13: a setCache of a key that has a row leaves one row for the key (no
\* row is added to or removed from the table; a table is a function of its
\* PRIMARY KEY), with the value of this call, expires_at computed by this
\* call and created_at stamped by this call
C13_SecondSetReplaces ==
    (lastSet.key # NoKey /\ lastSet.before # NoEntry) =>
        /\ lastSet.key \in Rows(cache)
        /\ lastSet.removed = {}
        /\ cache[lastSet.key].value = lastSet.value
        /\ cache[lastSet.key].expires_at = NowSec + lastSet.ttl
        /\ cache[lastSet.key].created_at = NowSec

\* C13 witness: the second setCache of a key came a second or more after
\* the first, with another value and another ttl
C13_Witness ==
    /\ lastSet.key # NoKey
    /\ lastSet.before # NoEntry
    /\ lastSet.before.value # lastSet.value
    /\ lastSet.before.ttl # lastSet.ttl
    /\ lastSet.before.created_at < NowSec
    /\ lastSet.before.expires_at > NowSec

IsScore(x) == x \in Nat

C15_NoPrimaryInCooldown ==
    \A t \in Tasks : task[t].pc = "primary" => ~task[t].cold

\* C16: a request made when the provider counts as failed and 10 minutes
\* or more have passed since asoFailedAt sets asoAvailable and goes to the
\* provider through withRateLimit; it does invoke the provider; and when
\* the provider resolves, the request returns the provider's result (a
\* missing field read as 0)
C16_LazyReprobe ==
    /\ [][\A t \in Tasks :
            (/\ task[t].pc = "idle"
             /\ task'[t].pc # "idle"
             /\ ~asoAvailable
             /\ now - asoFailedAt >= ASO_RETRY_INTERVAL_MS)
                => (asoAvailable' /\ task'[t].pc = "limit" /\ task'[t].reprobe)]_vars
    /\ \A t \in Tasks :
          (task[t].pc = "limit" /\ task[t].reprobe)
              ~> (task[t].pc = "primary" /\ task[t].reprobe)
    /\ [](\A t \in Tasks :
            (task[t].reprobe /\ Settled(t) /\ task[t].primary = "ok") =>
                /\ task[t].pc = "returned"
                /\ task[t].by = "primary"
                /\ task[t].op = "scores" =>
                      /\ task[t].raw \in ProviderScores
                      /\ task[t].scores = [traffic |-> Coalesce(task[t].raw.traffic),
                                           difficulty |-> Coalesce(task[t].raw.difficulty)])

\* C16 witness: a getScores request made 10 minutes after the failure has
\* returned what the provider resolved with at its first attempt
C16_Witness ==
    \E t \in Tasks :
        /\ task[t].reprobe
        /\ task[t].op = "scores"
        /\ task[t].pc = "returned"
        /\ task[t].by = "primary"
        /\ task[t].attempt = 0
        /\ now - asoFailedAt = ASO_RETRY_INTERVAL_MS

\* C17: batchGetScores has one result per keyword of the groups it has
\* gone through, result i carries keyword i of the input, a keyword whose
\* getScores threw has traffic 0 and difficulty 0, and the list returned
\* is as long as the input
C17_OneResultPerKeyword ==
    /\ Len(batch.results) = Min2(batch.i, Len(batch.keywords))
    /\ Len(batch.threw) = Len(batch.results)
    /\ \A i \in 1..Len(batch.results) :
          /\ batch.results[i].keyword = batch.keywords[i]
          /\ batch.threw[i] =>
                batch.results[i].traffic = 0 /\ batch.results[i].difficulty = 0
    /\ batch.pc = "returned" => Len(batch.results) = Len(batch.keywords)

\* C17 witness: three keywords in groups of two, one of them twice; the
\* second keyword's getScores threw, the first and the third have scores
C17_Witness ==
    /\ batch.pc = "returned"
    /\ batch.keywords = <<"a", "b", "a">>
    /\ batch.concurrency = 2
    /\ batch.threw = <<FALSE, TRUE, FALSE>>
    /\ batch.results[1].traffic > 0
    /\ batch.results[3].traffic > 0

\* C18: generateToken signs a token exactly when none is cached, or the
\* cached one was signed for another config key, or the clock's second has
\* reached the cached expiry less 120; otherwise it returns the cached
\* token and leaves the three cache variables as they were.  A token it
\* signs expires 1200 seconds after its iat, the second of the call, and
\* becomes the cached token
C18_SignsWhenNeeded ==
    lastToken.config # NoConfig =>
        LET needed == \/ lastToken.had = NoToken
                      \/ lastToken.hadKey # ConfigKey(lastToken.config)
                      \/ NowSec >= lastToken.hadExpiry - 120
        IN  /\ lastToken.signed <=> needed
            /\ ~lastToken.signed =>
                    /\ lastToken.token = lastToken.had
                    /\ cachedToken = lastToken.had
                    /\ cachedTokenExpiry = lastToken.hadExpiry
                    /\ cachedTokenConfigKey = lastToken.hadKey
            /\ lastToken.signed =>
                    /\ lastToken.token.iat = NowSec
                    /\ lastToken.token.exp = lastToken.token.iat + 20 * 60
                    /\ lastToken.token.iss = lastToken.config.issuerId
                    /\ cachedToken = lastToken.token
                    /\ cachedTokenExpiry = lastToken.token.exp
                    /\ cachedTokenConfigKey = ConfigKey(lastToken.config)

\* C18 witness: a token of the same config was cached and is replaced in
\* the second its expiry less 120 is reached
C18_Witness ==
    /\ lastToken.signed
    /\ lastToken.had # NoToken
    /\ lastToken.hadKey = ConfigKey(lastToken.config)
    /\ NowSec = lastToken.hadExpiry - 120

Writes(log) == {i \in 1..Len(log) : log[i].method \in {"POST", "PATCH"}}

\* C19: a write request of updateMetadata is a PATCH when the level's
\* localization exists upstream for the locale at the time of the request,
\* and a POST that creates it only when none exists
C19_CreateOnlyWhenAbsent ==
    \A i \in Writes(upd.log) :
        upd.log[i].method = IF upd.log[i].existed THEN "PATCH" ELSE "POST"

AppLevelOver ==
    upd.pc \in {"after", "returned", "thrown"} \/ (upd.pc # "idle" /\ upd.level = "version")

\* C20: an update with app-level fields and no name, once its app level is
\* over: when no app-level localization existed for the locale it has
\* failed with the validation error and has sent no POST and no PATCH;
\* when one existed, its first request was the PATCH of the app-level
\* localization and the lack of a name has not failed it
C20_NameNeededOnlyToCreate ==
    (/\ AppLevelOver
     /\ upd.updates \cap FieldsOf["app"] # {}
     /\ "name" \notin upd.updates) =>
        IF ~upd.existed["app"]
        THEN /\ upd.pc = "thrown"
             /\ upd.error = "validation"
             /\ Writes(upd.log) = {}
        ELSE /\ upd.error # "validation"
             /\ upd.log # <<>>
             /\ upd.log[1].method = "PATCH"
             /\ upd.log[1].level = "app"

\* C21: when the appInfos listed for the app hold a container that is not
\* READY_FOR_SALE, the container chosen (by getMetadata for reading and
\* patching, by getAppInfoId for creating) is not READY_FOR_SALE; a
\* READY_FOR_SALE container is chosen only when the list holds no other kind
C21_EditableChosen ==
    meta.allInfos # <<>> =>
        /\ meta.chosen["app"] \in 1..Len(meta.allInfos)
        /\ meta.allInfos[meta.chosen["app"]] = "READY_FOR_SALE" =>
                \A i \in 1..Len(meta.allInfos) : meta.allInfos[i] = "READY_FOR_SALE"

\* C21 witness: getAppInfoId was given the live container first and the
\* editable one second, and returned the second
C21_Witness ==
    /\ meta.op = "getAppInfoId"
    /\ meta.pc = "returned"
    /\ meta.allInfos = <<"READY_FOR_SALE", "PREPARE_FOR_SUBMISSION">>
    /\ meta.chosen["app"] = 2

\* what a level's requests, when none fails, find upstream
Expected(l) ==
    IF upstream.loc[l]
    THEN [id |-> <<l>>, text |-> <<(<<"t", "x", "t">>)>>, length |-> 3]
    ELSE [id |-> <<>>, text |-> <<>>, length |-> 0]

\* C23: getMetadata never throws; a level whose request failed or whose
\* localization is absent has id null, text null and length 0 in the
\* result, and the other level is returned as it is upstream
C23_LevelsIndependent ==
    meta.op = "getMetadata" =>
        /\ meta.pc # "thrown"
        /\ \A l \in Levels :
              meta.caught[l] =>
                  Result(meta)[l] = [id |-> <<>>, text |-> <<>>, length |-> 0]
        /\ meta.pc = "returned" =>
              \A l \in Levels : ~meta.caught[l] => Result(meta)[l] = Expected(l)

\* C23 witness: the app-level request failed and the version-level
\* localization was returned
C23_Witness ==
    /\ meta.op = "getMetadata"
    /\ meta.pc = "returned"
    /\ meta.caught["app"]
    /\ upstream.loc["app"]
    /\ Result(meta)["version"].length = 3

\* C24: a getMetadata call all of whose requests failed ends with an error
C24_TotalFailureSurfaced ==
    (/\ meta.op = "getMetadata"
     /\ meta.pc \in {"returned", "thrown"}
     /\ meta.tried > 0
     /\ meta.failed = meta.tried) => meta.pc = "thrown"

\* C25: a getMetadata call that finds the key file absent and no token to
\* reuse ends with an error after one attempt to make a token, without a
\* request sent
C25_KeyFileAbsentIsFatal ==
    (/\ meta.op = "getMetadata"
     /\ meta.pc \in {"returned", "thrown"}
     /\ ~meta.keyFile
     /\ meta.signs > 0) =>
        /\ meta.pc = "thrown"
        /\ meta.signs = 1
        /\ meta.fetched = 0

\* C30: no call of a tool handler ends with an exception outside a result
C30_NoRawException == meta.pc # "escaped" /\ tool.pc # "escaped"

\* C22: an updateMetadata call with version-level fields, for a locale
\* without a version-level localization and an app without an editable
\* version, ends with an error; it sends no PATCH and no POST at the version
\* level, looks the version up at most once, and when it got as far as the
\* version level the error is the one that names the missing version
C22_NoEditableVersion ==
    (/\ upd.pc \in {"returned", "thrown"}
     /\ "keywords" \in upd.updates
     /\ ~upd.existed["version"]
     /\ ~upstream.container["version"]) =>
        /\ upd.pc = "thrown"
        /\ \A i \in 1..Len(upd.log) :
              upd.log[i].level = "version" => upd.log[i].method = "GET"
        /\ Cardinality({i \in 1..Len(upd.log) : upd.log[i].level = "version"}) <= 1
        /\ upd.level = "version" => upd.error = "notfound"

\* C22 witness: the name was patched, then the version-level part failed
\* for want of an editable version
C22_Witness ==
    /\ upd.pc = "thrown"
    /\ upd.updates = {"name", "keywords"}
    /\ ~upstream.container["version"]
    /\ upd.level = "version"
    /\ upd.error = "notfound"
    /\ Len(upd.log) = 2
    /\ upd.log[1].method = "PATCH"

\* the violations of the limits name 30, keywords 100, description 4000 in
\* a list of updates, as pairs of the update's index and the field
Exceeding(updates) ==
    {v \in (1..Len(updates)) \X {"name", "keywords", "description"} :
        LET n == updates[v[1]][v[2]]
        IN  \/ v[2] = "name" /\ n > 30
            \/ v[2] = "keywords" /\ n > 100
            \/ v[2] = "description" /\ n > 4000}

C27_Sequential ==
    /\ Cardinality(tool.inflight) <= 1
    /\ \A j \in tool.inflight : Len(tool.results) = j - 1 \/ tool.name # "connect_batch_update_metadata"
    /\ tool.calls <= Len(tool.results) + Cardinality(tool.inflight)
           \/ tool.name # "connect_batch_update_metadata"

\* C27 witness: the second locale's call is in flight after the first
\* locale's call has failed
C27_Witness ==
    /\ tool.name = "connect_batch_update_metadata"
    /\ tool.inflight = {2}
    /\ tool.calls = 2
    /\ tool.results = <<[index |-> 1, status |-> "error"]>>

\* the result of a batch: one entry per update, in input order, and the
\* overall status that goes with them
BatchReport ==
    LET ok == {j \in 1..Len(tool.results) : tool.results[j].status = "success"}
        bad == {j \in 1..Len(tool.results) : tool.results[j].status = "error"}
    IN  /\ ~tool.result.isError
        /\ Len(tool.results) = Len(tool.updates)
        /\ \A j \in 1..Len(tool.results) : tool.results[j].index = j
        /\ tool.result.status \in {"success", "partial", "failed"}
        /\ tool.result.status = "success" <=> bad = {}
        /\ tool.result.status = "partial" <=> (ok # {} /\ bad # {})
        /\ tool.result.status = "failed" <=> ok = {}

C29_InvalidatedAfterWrite ==
    (tool.pc = "returned" /\ tool.wrote /\ ~tool.cacheFailed) =>
        \A k \in {<<"f", ":", "a">>, <<"f", ":", "b">>, <<"g", ":", "a">>} :
            cache[k] = NoEntry

\* C33: asoAvailable goes from TRUE to FALSE only in a step where a
\* provider call throws, and that step sets asoFailedAt to the clock;
\* asoFailedAt changes in no other step; asoAvailable goes from FALSE to
\* TRUE only in a step where a request starts with 10 minutes or more
\* passed since asoFailedAt; a step where the provider resolves changes
\* neither
C33_HealthTransitions ==
    [][/\ (asoAvailable /\ ~asoAvailable') =>
             /\ asoFailedAt' = now
             /\ \E t \in Tasks : task[t].pc = "primary" /\ task'[t].primary = "threw"
       /\ (asoFailedAt' # asoFailedAt) =>
             \E t \in Tasks : task[t].pc = "primary" /\ task'[t].primary = "threw"
       /\ (~asoAvailable /\ asoAvailable') =>
             /\ now - asoFailedAt >= ASO_RETRY_INTERVAL_MS
             /\ \E t \in Tasks : /\ task[t].pc = "idle"
                                 /\ task'[t].pc = "limit"
                                 /\ task'[t].reprobe
       /\ (\E t \in Tasks : task[t].pc = "primary" /\ task'[t].primary = "ok") =>
             UNCHANGED <<asoAvailable, asoFailedAt>>]_vars

\* C33 witness: a request re-probed after the cooldown, a second request's
\* provider call then threw, and the first one's provider call resolved
\* afterwards: the provider still counts as failed
C33_Witness ==
    \E t, u \in Tasks :
        /\ t # u
        /\ task[t].reprobe
        /\ task[t].pc = "returned"
        /\ task[t].primary = "ok"
        /\ task[u].primary = "threw"
        /\ ~asoAvailable
        /\ asoFailedAt >= ASO_RETRY_INTERVAL_MS

\* C39: a getScores call invokes the provider once at most: whenever a
\* getScores call stands at the provider call, it is the first attempt of
\* its withRateLimit loop
C39_PrimaryAtMostOnce ==
    \A t \in Tasks :
        (task[t].op = "scores" /\ task[t].pc = "primary") => task[t].attempt = 0

\* C34: while batchGetScores runs, the getScores calls in flight are never
\* more than its concurrency argument; calls are in flight only while the
\* round awaits its group, with the results of every earlier keyword
\* already collected; and a step that starts getScores calls starts them
\* when no call is in flight
C34_GroupsInTurn ==
    /\ [](LET inflight == {t \in Tasks : task[t].pc # "idle"}
          IN  /\ batch.pc # "idle" => Cardinality(inflight) <= batch.concurrency
              /\ inflight # {} =>
                    /\ batch.pc = "await"
                    /\ Len(batch.results) = batch.i
                    /\ Cardinality(inflight) = Len(Group))
    /\ [][(\E t \in Tasks : task[t].pc = "idle" /\ task'[t].pc # "idle") =>
             \A u \in Tasks : task[u].pc = "idle"]_vars

\* C34 witness: three keywords in groups of two; the first group's two
\* results are collected and the third keyword's call is in flight alone
C34_Witness ==
    /\ batch.pc = "await"
    /\ batch.concurrency = 2
    /\ Len(batch.keywords) = 3
    /\ batch.i = 2
    /\ Len(batch.results) = 2
    /\ task[1].pc = "primary"
    /\ task[2].pc = "idle"

C37_OneTokenPerCall ==
    /\ [](\A s \in Sources :
            admitted[s] = started[s] -
                Cardinality({c \in Callers :
                    call[c].pc = "waiting" /\ call[c].source = s}))
    /\ [][\A s \in Sources :
             (buckets'[s] # buckets[s] \/ admitted'[s] # admitted[s]) =>
                 \E c \in Callers :
                     /\ call'[c].source = s
                     /\ call[c].pc \in {"idle", "waiting"}
                     /\ call'[c].pc \in {"waiting", "running"}
                     /\ call'[c].pc # call[c].pc]_vars
    /\ [][\A c \in Callers :
             (call[c].pc = "backoff" /\ call'[c].pc = "running") =>
                 UNCHANGED <<buckets, admitted>>]_vars

\* C37 witness: a call is at its third attempt, it is the only call made
\* on its source and one token was taken there; the other source has no
\* bucket
C37_Witness ==
    \E c \in Callers :
        /\ call[c].pc = "running"
        /\ call[c].attempt = 2
        /\ started[call[c].source] = 1
        /\ admitted[call[c].source] = 1
        /\ \E s \in Sources : s # call[c].source /\ buckets[s] = NoBucket

\* C31: for traffic and difficulty from 0 to 10 in tenths,
\* calculateOpportunityScore is 1.5 * traffic - 0.8 * difficulty + 5 cut
\* to the range 0..10 (here in hundredths); it is 5 at (0, 0); a tenth more
\* traffic never lowers it and a tenth more difficulty never raises it;
\* and its value at (8, 3) is above its value at (2, 9)
C31_OpportunityScore ==
    (calc.fn = "opportunity" /\ calc.done) =>
        LET t == calc.in[1]
            d == calc.in[2]
            raw == 15 * t - 8 * d + 500
        IN  /\ calc.out = IF raw < 0 THEN 0 ELSE IF raw > 1000 THEN 1000 ELSE raw
            /\ calc.out >= 0 /\ calc.out <= 1000
            /\ (t = 0 /\ d = 0) => calc.out = 500
            /\ t < 100 => calculateOpportunityScore(t + 1, d) >= calc.out
            /\ d < 100 => calculateOpportunityScore(t, d + 1) <= calc.out
            /\ calculateOpportunityScore(80, 30) > calculateOpportunityScore(20, 90)

\* C31 witness: the score of traffic 2.0 and difficulty 9.0 is 0.8
C31_Witness ==
    /\ calc.fn = "opportunity"
    /\ calc.done
    /\ calc.in = <<20, 90>>
    /\ calc.out = 80

\* C32: calculateCompetitiveScore is 0 for the empty list and within 0..10
\* (here in thousandths) for a list of apps; and of two lists of apps that
\* agree in two of average rating, average review count and fraction of
\* free apps, the one with the lesser third has the lesser or equal score
C32_CompetitiveScore ==
    (calc.fn = "competitive" /\ calc.done) =>
        LET a == calc.in
            n == Len(a)
            LessEq(x, nx, y, ny) == x * ny <= y * nx
            Same(x, nx, y, ny) == x * ny = y * nx
        IN  /\ a = <<>> => calc.out = 0
            /\ a # <<>> => calc.out >= 0 /\ calc.out <= 10000
            /\ a # <<>> =>
                  \A b \in AppLists \ {<<>>} :
                      LET k == Len(b)
                          sameRating == Same(RatingSum(a), n, RatingSum(b), k)
                          sameReviews == Same(ReviewSum(a), n, ReviewSum(b), k)
                          sameFree == Same(FreeCount(a), n, FreeCount(b), k)
                      IN  /\ (sameReviews /\ sameFree
                               /\ LessEq(RatingSum(a), n, RatingSum(b), k))
                                  => calc.out <= calculateCompetitiveScore(b)
                          /\ (sameRating /\ sameFree
                               /\ LessEq(ReviewSum(a), n, ReviewSum(b), k))
                                  => calc.out <= calculateCompetitiveScore(b)
                          /\ (sameRating /\ sameReviews
                               /\ LessEq(FreeCount(a), n, FreeCount(b), k))
                                  => calc.out <= calculateCompetitiveScore(b)

\* C32 witness: two apps, one without a rating, one free, 505 reviews on
\* average: 1.5 for the rating, 2.162 for the reviews, 1.5 for the price
C32_Witness ==
    /\ calc.fn = "competitive"
    /\ calc.done
    /\ Len(calc.in) = 2
    /\ calc.in[1].rating = Undefined /\ calc.in[2].rating = 50
    /\ calc.in[1].reviews = 10 /\ calc.in[2].reviews = 1000
    /\ calc.in[1].free /\ ~calc.in[2].free
    /\ calc.out = 1500 + 2162 + 1500

\* C36 as stated: for every update u, sanitizing what sanitizeUpdates
\* returned for u returns it unchanged
C36_SanitizeIdempotent ==
    (calc.fn = "sanitize" /\ calc.done) => sanitizeUpdates(calc.out) = calc.out

\* C36 amended: an undefined field stays undefined; a field without the
\* character & comes back as it was; the sanitized fields contain none of
\* &lt; &gt; &quot; &#39; &#x27; &#x2F;; and sanitizing them again returns
\* them unchanged exactly when none of them contains &amp;
C36_IdempotentWithoutAmp ==
    (calc.fn = "sanitize" /\ calc.done) =>
        /\ \A f \in DOMAIN calc.in :
              /\ calc.in[f] = <<>> <=> calc.out[f] = <<>>
              /\ (calc.in[f] # <<>> /\ ~Includes(calc.in[f][1], <<"&">>)) =>
                    calc.out[f] = calc.in[f]
              /\ calc.out[f] # <<>> =>
                    \A e \in {EntLt, EntGt, EntQuot, EntApos, EntAposHex, EntSlashHex} :
                        ~Includes(calc.out[f][1], e)
        /\ (sanitizeUpdates(calc.out) = calc.out) <=>
              \A f \in DOMAIN calc.out :
                  calc.out[f] # <<>> => ~Includes(calc.out[f][1], EntAmp)

\* C36 witness: the name &lt;x&amp; was sanitized to <x& and a second
\* pass leaves it so
C36_Witness ==
    /\ calc.fn = "sanitize"
    /\ calc.done
    /\ calc.in.name = <<EntLt \o <<"x">> \o EntAmp>>
    /\ calc.out.name = <<(<<"<", "x", "&">>)>>
    /\ calc.in.keywords = <<>>
    /\ sanitizeUpdates(calc.out) = calc.out

\* C38: when a connect_get_metadata call and an update of the same app
\* that wrote upstream have both returned, the update with success (its
\* cache deletions done), the cache holds no entry that the read stored
\* from text fetched before the write
C38_NoStaleEntry ==
    (/\ meta.op = "connect_get_metadata"
     /\ meta.pc = "returned"
     /\ meta.result = "success"
     /\ tool.pc = "returned"
     /\ tool.wrote
     /\ ~tool.result.isError
     /\ cache[meta.key] # NoEntry) =>
        \A l \in Levels :
            meta.loc[l] # <<>> => meta.loc[l][1].text = <<"n", "e", "w">>

====
